---- MODULE Spec2Model ----
(***************************************************************************)
(* Model of the webserv HTTP/1.1 server: the incremental request parser    *)
(* (HttpRequestParser / HttpRequest), response building (HttpResponse),    *)
(* the per-client Connection and the Webserv event loop.                   *)
(*                                                                         *)
(* Byte strings are sequences of one-character strings; the bytes CR, LF   *)
(* and HT are written "CR", "LF" and "HT", the quote characters and the    *)
(* backslash "SQUOTE", "DQUOTE", "BQUOTE" and "BSLASH".  Positions are     *)
(* 0-based as in the C++ source, NPOS stands for std::string::npos.        *)
(***************************************************************************)
EXTENDS Integers, Sequences, FiniteSets, TLC

\* ------------------------------------------------------------------------
\* Bytes and std::string helpers
\* ------------------------------------------------------------------------
CR == "CR"
LF == "LF"
SP == " "
HT == "HT"
CRLF == <<CR, LF>>
NPOS == -1

UpperChars == {"A","B","C","D","E","F","G","H","I","J","K","L","M",
               "N","O","P","Q","R","S","T","U","V","W","X","Y","Z"}
LowerChars == {"a","b","c","d","e","f","g","h","i","j","k","l","m",
               "n","o","p","q","r","s","t","u","v","w","x","y","z"}
DigitChars == {"0","1","2","3","4","5","6","7","8","9"}
\* bytes below 32 and byte 127 of the modelled alphabet
ControlChars == {CR, LF, HT}

UpperToLower ==
  [c \in UpperChars |->
     CASE c = "A" -> "a" [] c = "B" -> "b" [] c = "C" -> "c" [] c = "D" -> "d"
       [] c = "E" -> "e" [] c = "F" -> "f" [] c = "G" -> "g" [] c = "H" -> "h"
       [] c = "I" -> "i" [] c = "J" -> "j" [] c = "K" -> "k" [] c = "L" -> "l"
       [] c = "M" -> "m" [] c = "N" -> "n" [] c = "O" -> "o" [] c = "P" -> "p"
       [] c = "Q" -> "q" [] c = "R" -> "r" [] c = "S" -> "s" [] c = "T" -> "t"
       [] c = "U" -> "u" [] c = "V" -> "v" [] c = "W" -> "w" [] c = "X" -> "x"
       [] c = "Y" -> "y" [] c = "Z" -> "z"]

LowerToUpper ==
  [c \in LowerChars |-> CHOOSE u \in UpperChars : UpperToLower[u] = c]

tolower(c) == IF c \in UpperChars THEN UpperToLower[c] ELSE c
toupper(c) == IF c \in LowerChars THEN LowerToUpper[c] ELSE c
isalpha(c) == c \in UpperChars \cup LowerChars

toLowerCase(str) == [i \in 1..Len(str) |-> tolower(str[i])]

MinOf(S) == CHOOSE x \in S : \A y \in S : x <= y

\* std::string::find(pat, pos): first 0-based position >= pos, or NPOS
Find(s, pat, pos) ==
  LET hits == {i \in pos..(Len(s) - Len(pat)) :
                 SubSeq(s, i + 1, i + Len(pat)) = pat}
  IN IF hits = {} THEN NPOS ELSE MinOf(hits)

\* std::string::substr(pos, n) and substr(pos)
Substr(s, pos, n) ==
  SubSeq(s, pos + 1, IF pos + n < Len(s) THEN pos + n ELSE Len(s))
SubstrFrom(s, pos) == SubSeq(s, pos + 1, Len(s))

\* ------------------------------------------------------------------------
\* HttpRequest
\* ------------------------------------------------------------------------
PARSED_OFFSET_THRESHOLD == 4096
MAX_REQUEST_TARGET_LENGTH == 2048

I_AM_TEAPOD == 418
BAD_REQUEST == 400
REQUEST_TIMEOUT == 408
LENGTH_REQUIRED == 411
INTERNAL_SERVER_ERROR == 500
NOT_IMPLEMENTED == 501
HTTP_VERSION_NOT_SUPPORTED == 505

\* size_t is modelled with a narrowed width: values live in 0..SizeModulus-1
SizeModulus == 65536

NoHeaders == [n \in {} |-> <<>>]

HttpRequest ==
  [buffer |-> <<>>, parsed_buffer_offset |-> 0,
   method_code |-> "UNKNOWN", method_raw |-> <<>>,
   request_target |-> <<>>, http_version |-> <<>>,
   headers |-> NoHeaders, body |-> <<>>, body_length |-> 0,
   state |-> "REQUEST_LINE", is_chanked |-> FALSE,
   expected_chunk_length |-> 0, is_error |-> FALSE,
   status_code |-> I_AM_TEAPOD, err_message |-> ""]

reset(r) == HttpRequest

MethodCode(method) ==
  CASE method = <<"G","E","T">> -> "GET"
    [] method = <<"H","E","A","D">> -> "HEAD"
    [] method = <<"P","O","S","T">> -> "POST"
    [] method = <<"P","U","T">> -> "PUT"
    [] method = <<"D","E","L","E","T","E">> -> "DELETE"
    [] method = <<"C","O","N","N","E","C","T">> -> "CONNECT"
    [] method = <<"O","P","T","I","O","N","S">> -> "OPTIONS"
    [] method = <<"T","R","A","C","E">> -> "TRACE"
    [] OTHER -> "UNKNOWN"

setMethod(r, method) ==
  [r EXCEPT !.method_raw = method, !.method_code = MethodCode(method)]

setRequestTarget(r, target) == [r EXCEPT !.request_target = target]
setHttpVersion(r, version) == [r EXCEPT !.http_version = version]

\* HttpRequest::insertHeader: lowercased key, duplicates joined by ","
HttpRequest_insertHeader(r, field_name, value) ==
  LET lowercase_name == toLowerCase(field_name)
  IN IF lowercase_name \in DOMAIN r.headers
       THEN [r EXCEPT !.headers[lowercase_name] = @ \o <<",">> \o value]
       ELSE [r EXCEPT !.headers = @ @@ (lowercase_name :> value)]

hasHeader(r, field_name) == toLowerCase(field_name) \in DOMAIN r.headers
getHeader(r, field_name) ==
  IF hasHeader(r, field_name) THEN r.headers[toLowerCase(field_name)]
  ELSE <<>>

HttpRequest_setBody(r, body) == [r EXCEPT !.body = body]
setBodyLength(r, n) == [r EXCEPT !.body_length = n]
setChunkedStatus(r, b) == [r EXCEPT !.is_chanked = b]
setExpectedChunkLength(r, n) == [r EXCEPT !.expected_chunk_length = n]

\* the message text is kept without the request-dependent suffix
setErrorStatus(r, error_msg, error_code) ==
  [r EXCEPT !.state = "COMPLETE", !.is_error = TRUE,
            !.err_message = error_msg, !.status_code = error_code]

getUnparsedBuffer(r) ==
  IF r.parsed_buffer_offset >= Len(r.buffer) THEN <<>>
  ELSE SubstrFrom(r.buffer, r.parsed_buffer_offset)

\* mutant: the whole buffer is dropped
eraseParsedBuffer_whole(r) ==
  [r EXCEPT !.buffer = <<>>, !.parsed_buffer_offset = 0]

\* eraseParsedBuffer(bytes = 0): drop the consumed prefix
eraseParsedBuffer(r) ==
  LET amount == r.parsed_buffer_offset
  IN [r EXCEPT !.buffer = SubstrFrom(r.buffer,
                            IF amount < Len(r.buffer) THEN amount
                            ELSE Len(r.buffer)),
               !.parsed_buffer_offset = 0]

appendBuffer(r, data) ==
  LET r1 == [r EXCEPT !.buffer = @ \o data]
  IN IF r1.parsed_buffer_offset >= PARSED_OFFSET_THRESHOLD
       THEN eraseParsedBuffer(r1) ELSE r1

commitParsedBytes(r, bytes) ==
  [r EXCEPT !.parsed_buffer_offset = @ + bytes]

setParsingState(r, state) ==
  LET r1 == [r EXCEPT !.state = state]
  IN IF state = "COMPLETE"
       THEN [r1 EXCEPT !.buffer = <<>>, !.parsed_buffer_offset = 0]
       ELSE IF r1.parsed_buffer_offset >= PARSED_OFFSET_THRESHOLD
              THEN eraseParsedBuffer(r1) ELSE r1

\* mutant: the chunk replaces the body collected so far
appendBody_replace(r, data) ==
  [r EXCEPT !.body_length = Len(data), !.body = data]

appendBody(r, data) ==
  [r EXCEPT !.body_length = @ + Len(data), !.body = @ \o data]

\* ------------------------------------------------------------------------
\* HttpRequestParser
\* ------------------------------------------------------------------------
Result(status, r) == [status |-> status, req |-> r]
Error(r, error_msg, error_code) ==
  Result("ERROR", setErrorStatus(r, error_msg, error_code))

HexChars == DigitChars \cup {"a","b","c","d","e","f","A","B","C","D","E","F"}
DigitValue(c) ==
  CASE c = "0" -> 0 [] c = "1" -> 1 [] c = "2" -> 2 [] c = "3" -> 3
    [] c = "4" -> 4 [] c = "5" -> 5 [] c = "6" -> 6 [] c = "7" -> 7
    [] c = "8" -> 8 [] c = "9" -> 9
    [] c \in {"a","A"} -> 10 [] c \in {"b","B"} -> 11
    [] c \in {"c","C"} -> 12 [] c \in {"d","D"} -> 13
    [] c \in {"e","E"} -> 14 [] c \in {"f","F"} -> 15

\* length of the longest prefix of s made of bytes in S
RECURSIVE SpanLen(_, _)
SpanLen(s, S) ==
  IF s # <<>> /\ Head(s) \in S THEN 1 + SpanLen(Tail(s), S) ELSE 0

\* value of a digit string in the given base; -1 when it leaves size_t
RECURSIVE DigitsValue(_, _, _)
DigitsValue(digits, base, acc) ==
  IF digits = <<>> THEN acc
  ELSE LET next == acc * base + DigitValue(Head(digits))
       IN IF next >= SizeModulus THEN -1
          ELSE DigitsValue(Tail(digits), base, next)

\* std::stoull(str, 0, base): skips leading white space, takes an optional
\* sign and (base 16) an optional 0x prefix, then the longest digit run;
\* throws invalid_argument without digits and out_of_range on overflow
stoull(str, base) ==
  LET ws == SpanLen(str, {SP, HT, CR, LF})
      s1 == SubstrFrom(str, ws)
      signed == s1 # <<>> /\ Head(s1) \in {"+", "-"}
      negative == signed /\ Head(s1) = "-"
      s2 == IF signed THEN Tail(s1) ELSE s1
      digitSet == IF base = 16 THEN HexChars ELSE DigitChars
      prefixed == /\ base = 16
                  /\ Len(s2) >= 3
                  /\ s2[1] = "0" /\ s2[2] \in {"x", "X"}
                  /\ s2[3] \in HexChars
      s3 == IF prefixed THEN SubstrFrom(s2, 2) ELSE s2
      n == SpanLen(s3, digitSet)
      v == DigitsValue(SubSeq(s3, 1, n), base, 0)
  IN IF n = 0 THEN [ok |-> FALSE, value |-> 0]
     ELSE IF v = -1 THEN [ok |-> FALSE, value |-> 0]
     ELSE [ok |-> TRUE,
           value |-> IF negative THEN (SizeModulus - v) % SizeModulus ELSE v]

validateTokenChar(ch) ==
  \/ ch \in UpperChars \/ ch \in LowerChars \/ ch \in DigitChars
  \/ ch \in {"!", "#", "$", "%", "&", "SQUOTE", "*", "+", "-", ".", "^", "_",
             "BQUOTE", "|", "~"}

validateHeaderField(field) ==
  /\ field # <<>>
  /\ \A i \in 1..Len(field) : validateTokenChar(field[i])

\* validateAndTrimHeaderValue: [ok, value]; value is trimmed only when ok
validateAndTrimHeaderValue(value) ==
  LET start == SpanLen(value, {SP, HT})
      rev == [i \in 1..(Len(value) - start) |-> value[Len(value) + 1 - i]]
      end == Len(value) - SpanLen(rev, {SP, HT})
  IN IF start >= end THEN [ok |-> FALSE, value |-> value]
     ELSE IF \E i \in (start + 1)..end : value[i] \in ControlChars
       THEN [ok |-> FALSE, value |-> value]
     ELSE [ok |-> TRUE, value |-> SubSeq(value, start + 1, end)]

\* validateRequestTarget: "" when valid, else the error text (always 400)
validateRequestTarget(target) ==
  LET lower_target == toLowerCase(target)
      scheme_end == Find(lower_target, <<":", "/", "/">>, 0)
      scheme == Substr(lower_target, 0, scheme_end)
  IN IF Len(lower_target) > MAX_REQUEST_TARGET_LENGTH
       THEN "Request target too long"
     ELSE IF \E i \in 1..Len(lower_target) :
               lower_target[i] \in ControlChars \cup {"<", ">", "DQUOTE", "BSLASH"}
       THEN "Request target contains forbidden character"
     ELSE IF /\ scheme_end # NPOS
             /\ scheme # <<"h","t","t","p">>
             /\ scheme # <<"h","t","t","p","s">>
       THEN "Only http/https schemes allowed"
     ELSE IF /\ scheme_end = NPOS
             /\ (lower_target = <<>> \/ lower_target[1] # "/")
       THEN "Request target without scheme should start with /"
     ELSE ""

\* ^HTTP/\d+\.\d+$
MatchesGeneralVersion(version) ==
  /\ Len(version) >= 8
  /\ SubSeq(version, 1, 5) = <<"H","T","T","P","/">>
  /\ LET rest == SubstrFrom(version, 5)
         major == SpanLen(rest, DigitChars)
         after == SubstrFrom(rest, major)
     IN /\ major >= 1
        /\ after # <<>> /\ Head(after) = "."
        /\ SpanLen(Tail(after), DigitChars) = Len(after) - 1
        /\ Len(after) >= 2

\* ^HTTP/1\.[01]$
MatchesSupportedVersion(version) ==
  \/ version = <<"H","T","T","P","/","1",".","0">>
  \/ version = <<"H","T","T","P","/","1",".","1">>

\* validateHttpVersion: 0 when valid, else the error status
validateHttpVersion(version) ==
  LET is_valid == MatchesGeneralVersion(version)
      is_supported == MatchesSupportedVersion(version)
  IN IF is_valid /\ ~is_supported THEN HTTP_VERSION_NOT_SUPPORTED
     ELSE IF ~is_valid THEN BAD_REQUEST
     ELSE 0

\* mutant: the target is checked before the method
parseRequestLine_target_first(r) ==
  LET message == getUnparsedBuffer(r)
      request_line_end == Find(message, CRLF, 0)
      request_line == Substr(message, 0, request_line_end)
      method_end == Find(request_line, <<SP>>, 0)
      target_start == method_end + 1
      target_end == Find(request_line, <<SP>>, target_start)
      version_start == target_end + 1
      method == Substr(request_line, 0, method_end)
      target == Substr(request_line, target_start, target_end - target_start)
      version == SubstrFrom(request_line, version_start)
      r1 == setMethod(r, method)
      target_error == validateRequestTarget(target)
      r2 == setRequestTarget(r1, target)
      version_error == validateHttpVersion(version)
      r3 == setHttpVersion(r2, version)
  IN IF request_line_end = NPOS THEN Result("WAIT_FOR_DATA", r)
     ELSE IF request_line = <<>>
       THEN Error(r, "Empty request line", BAD_REQUEST)
     ELSE IF method_end = NPOS
       THEN Error(r, "Malformed request line - missing spaces", BAD_REQUEST)
     ELSE IF target_end = NPOS
       THEN Error(r, "Malformed request line - missing target", BAD_REQUEST)
     ELSE IF target_error # ""
       THEN Error(r1, target_error, BAD_REQUEST)
     ELSE IF r1.method_code = "UNKNOWN"
       THEN Error(r1, "Method is unrecognized or not implemented",
                  NOT_IMPLEMENTED)
     ELSE IF version_error = HTTP_VERSION_NOT_SUPPORTED
       THEN Error(r2, "Valid format but unsupported HTTP version",
                  HTTP_VERSION_NOT_SUPPORTED)
     ELSE IF version_error = BAD_REQUEST
       THEN Error(r2, "Invalid HTTP version format", BAD_REQUEST)
     ELSE Result("CONTINUE",
                 setParsingState(
                   commitParsedBytes(r3, Len(request_line) + 2), "HEADERS"))

parseRequestLine(r) ==
  LET message == getUnparsedBuffer(r)
      request_line_end == Find(message, CRLF, 0)
      request_line == Substr(message, 0, request_line_end)
      method_end == Find(request_line, <<SP>>, 0)
      target_start == method_end + 1
      target_end == Find(request_line, <<SP>>, target_start)
      version_start == target_end + 1
      method == Substr(request_line, 0, method_end)
      target == Substr(request_line, target_start, target_end - target_start)
      version == SubstrFrom(request_line, version_start)
      r1 == setMethod(r, method)
      target_error == validateRequestTarget(target)
      r2 == setRequestTarget(r1, target)
      version_error == validateHttpVersion(version)
      r3 == setHttpVersion(r2, version)
  IN IF request_line_end = NPOS THEN Result("WAIT_FOR_DATA", r)
     ELSE IF request_line = <<>>
       THEN Error(r, "Empty request line", BAD_REQUEST)
     ELSE IF method_end = NPOS
       THEN Error(r, "Malformed request line - missing spaces", BAD_REQUEST)
     ELSE IF target_end = NPOS
       THEN Error(r, "Malformed request line - missing target", BAD_REQUEST)
     ELSE IF r1.method_code = "UNKNOWN"
       THEN Error(r1, "Method is unrecognized or not implemented",
                  NOT_IMPLEMENTED)
     ELSE IF target_error # ""
       THEN Error(r1, target_error, BAD_REQUEST)
     ELSE IF version_error = HTTP_VERSION_NOT_SUPPORTED
       THEN Error(r2, "Valid format but unsupported HTTP version",
                  HTTP_VERSION_NOT_SUPPORTED)
     ELSE IF version_error = BAD_REQUEST
       THEN Error(r2, "Invalid HTTP version format", BAD_REQUEST)
     ELSE Result("CONTINUE",
                 setParsingState(
                   commitParsedBytes(r3, Len(request_line) + 2), "HEADERS"))

parseRequestHeaderLine(header, r) ==
  LET colon_pos == Find(header, <<":">>, 0)
      field_name == Substr(header, 0, colon_pos)
      value == SubstrFrom(header, colon_pos + 1)
      trimmed == validateAndTrimHeaderValue(value)
  IN IF colon_pos = NPOS
       THEN Error(r, "Malformed header - missing colon", BAD_REQUEST)
     ELSE IF ~validateHeaderField(field_name)
       THEN Error(r, "Malformed header - invalid field name in line",
                  BAD_REQUEST)
     ELSE IF ~trimmed.ok
       THEN Error(r, "Malformed header - invalid value in line", BAD_REQUEST)
     ELSE Result("CONTINUE",
                 HttpRequest_insertHeader(r, field_name, trimmed.value))

\* mutant: a request without Host is accepted
validateHeadersSetup_without_host(r) ==
  LET hasTE == hasHeader(r, <<"T","r","a","n","s","f","e","r","-",
                              "E","n","c","o","d","i","n","g">>)
      content_length ==
        stoull(getHeader(r, <<"c","o","n","t","e","n","t","-",
                              "l","e","n","g","t","h">>), 10)
      r1 == IF hasTE
              THEN setParsingState(setChunkedStatus(r, TRUE),
                                   "CHUNKED_BODY_SIZE")
              ELSE setParsingState(r, "BODY")
  IN Result("CONTINUE", setBodyLength(r1, content_length.value))

validateHeadersSetup(r) ==
  LET transfer_encoding ==
        toLowerCase(getHeader(r, <<"T","r","a","n","s","f","e","r","-",
                                   "E","n","c","o","d","i","n","g">>))
      hasTE == hasHeader(r, <<"T","r","a","n","s","f","e","r","-",
                              "E","n","c","o","d","i","n","g">>)
      hasCL == hasHeader(r, <<"C","o","n","t","e","n","t","-",
                              "L","e","n","g","t","h">>)
      r1 == IF hasTE
              THEN setParsingState(setChunkedStatus(r, TRUE),
                                   "CHUNKED_BODY_SIZE")
              ELSE setParsingState(r, "BODY")
      content_length ==
        stoull(getHeader(r, <<"c","o","n","t","e","n","t","-",
                              "l","e","n","g","t","h">>), 10)
  IN IF ~hasHeader(r, <<"H","o","s","t">>)
       THEN Error(r, "Host header is missing", BAD_REQUEST)
     ELSE IF hasTE /\ hasCL
       THEN Error(r, "Malformed header - can't have both Content-Length and Transfer-Encoding",
                  BAD_REQUEST)
     ELSE IF hasTE /\ Find(transfer_encoding,
                           <<"c","h","u","n","k","e","d">>, 0) = NPOS
       THEN Error(r, "Unsupported Transfer-Encoding type", BAD_REQUEST)
     ELSE IF hasCL /\ ~content_length.ok
       THEN Error(r1, "Failed to parse Content-Length", BAD_REQUEST)
     ELSE IF hasCL
       THEN Result("CONTINUE", setBodyLength(r1, content_length.value))
     ELSE Result("CONTINUE", r1)

\* the while loop of parseRequestHeaders over the header lines
RECURSIVE HeaderLines(_, _, _)
HeaderLines(headers_content, start_pos, r) ==
  IF ~(start_pos < Len(headers_content)) THEN Result("CONTINUE", r)
  ELSE LET found == Find(headers_content, CRLF, start_pos)
           end_pos == IF found = NPOS THEN Len(headers_content) ELSE found
           header_line ==
             Substr(headers_content, start_pos, end_pos - start_pos)
           line == parseRequestHeaderLine(header_line, r)
       IN IF line.status = "ERROR" THEN line
          ELSE IF end_pos = Len(headers_content) THEN line
          ELSE HeaderLines(headers_content, end_pos + 2, line.req)

parseRequestHeaders(r) ==
  LET message == getUnparsedBuffer(r)
      headers_end == Find(message, <<CR, LF, CR, LF>>, 0)
      headers_content == Substr(message, 0, headers_end)
      lines == HeaderLines(headers_content, 0, r)
  IN IF Find(message, CRLF, 0) = 0
       THEN Error(r, "Malformed header - missing Host", BAD_REQUEST)
     ELSE IF headers_end = NPOS THEN Result("WAIT_FOR_DATA", r)
     ELSE IF lines.status = "ERROR" THEN lines
     ELSE validateHeadersSetup(commitParsedBytes(lines.req, headers_end + 4))

\* mutant: bytes beyond the expected length are taken into the body
parseRequestBody_at_least(r) ==
  LET message == getUnparsedBuffer(r)
  IN IF r.body_length > Len(message) THEN Result("WAIT_FOR_DATA", r)
     ELSE Result("CONTINUE",
                 setParsingState(
                   commitParsedBytes(HttpRequest_setBody(r, message),
                                     Len(message)),
                   "COMPLETE"))

parseRequestBody(r) ==
  LET message == getUnparsedBuffer(r)
  IN IF r.body_length > Len(message) THEN Result("WAIT_FOR_DATA", r)
     ELSE IF r.body_length # Len(message)
       THEN Error(r, "Content-Length mismatch", BAD_REQUEST)
     ELSE Result("CONTINUE",
                 setParsingState(
                   commitParsedBytes(HttpRequest_setBody(r, message),
                                     Len(message)),
                   "COMPLETE"))

parseRequestChunkedBodySize(r) ==
  LET message == getUnparsedBuffer(r)
      chunk_size_end == Find(message, CRLF, 0)
      hex_chunk_size == Substr(message, 0, chunk_size_end)
      chunk_size == stoull(hex_chunk_size, 16)
      r1 == setExpectedChunkLength(r, chunk_size.value)
      r2 == IF r1.expected_chunk_length > 0
              THEN setParsingState(r1, "CHUNKED_BODY_DATA")
              ELSE setParsingState(r1, "CHUNKED_BODY_TRAILER")
  IN IF chunk_size_end = NPOS THEN Result("WAIT_FOR_DATA", r)
     ELSE IF ~chunk_size.ok
       THEN Error(r, "Failed to parse chunk data size", BAD_REQUEST)
     ELSE Result("CONTINUE", commitParsedBytes(r2, chunk_size_end + 2))

\* mutant: the chunk is appended to the body and left in the buffer
parseRequestChunkedBodyData_uncommitted(r) ==
  LET message == getUnparsedBuffer(r)
      chunk_data_end == Find(message, CRLF, 0)
      chunk_data == Substr(message, 0, chunk_data_end)
  IN IF chunk_data_end = NPOS THEN Result("WAIT_FOR_DATA", r)
     ELSE IF Len(chunk_data) # r.expected_chunk_length
       THEN Error(r, "Chunk length mismatch", BAD_REQUEST)
     ELSE Result("CONTINUE",
                 setParsingState(appendBody(r, chunk_data),
                                 "CHUNKED_BODY_SIZE"))

parseRequestChunkedBodyData(r) ==
  LET message == getUnparsedBuffer(r)
      chunk_data_end == Find(message, CRLF, 0)
      chunk_data == Substr(message, 0, chunk_data_end)
  IN IF chunk_data_end = NPOS THEN Result("WAIT_FOR_DATA", r)
     ELSE IF Len(chunk_data) # r.expected_chunk_length
       THEN Error(r, "Chunk length mismatch", BAD_REQUEST)
     ELSE Result("CONTINUE",
                 setParsingState(
                   appendBody(commitParsedBytes(r, chunk_data_end + 2),
                              chunk_data),
                   "CHUNKED_BODY_SIZE"))

parseRequestChunkedBodyTrailer(r) ==
  LET message == getUnparsedBuffer(r)
      chunk_trailer_end == Find(message, CRLF, 0)
  IN IF chunk_trailer_end = NPOS THEN Result("WAIT_FOR_DATA", r)
     ELSE IF chunk_trailer_end # 0 \/ Len(message) # 2
       THEN Error(r, "Malformed chunked body trailer", BAD_REQUEST)
     ELSE Result("CONTINUE",
                 setParsingState(
                   eraseParsedBuffer(
                     commitParsedBytes(r, chunk_trailer_end + 2)),
                   "COMPLETE"))

\* one pass of the switch in parseRequest
ParseStep(r) ==
  CASE r.state = "REQUEST_LINE" -> parseRequestLine(r)
    [] r.state = "HEADERS" -> parseRequestHeaders(r)
    [] r.state = "BODY" -> parseRequestBody(r)
    [] r.state = "CHUNKED_BODY_SIZE" -> parseRequestChunkedBodySize(r)
    [] r.state = "CHUNKED_BODY_DATA" -> parseRequestChunkedBodyData(r)
    [] r.state = "CHUNKED_BODY_TRAILER" -> parseRequestChunkedBodyTrailer(r)
    [] r.state = "COMPLETE" -> Result("DONE", r)
    [] OTHER -> Result("ERROR", r)

\* the while (true) loop of parseRequest
RECURSIVE ParseLoop(_)
ParseLoop(r) ==
  LET step == ParseStep(r)
  IN IF step.status = "CONTINUE" THEN ParseLoop(step.req) ELSE step

parseRequest(data, r) ==
  IF data = <<>> THEN Result("WAIT_FOR_DATA", r)
  ELSE ParseLoop(appendBuffer(r, data))

\* ------------------------------------------------------------------------
\* Request messages used as inputs
\* ------------------------------------------------------------------------
sGET == <<"G","E","T">>
sPOST == <<"P","O","S","T">>
sPATCH == <<"P","A","T","C","H">>
sHTTP11 == <<"H","T","T","P","/","1",".","1">>
sHTTP10 == <<"H","T","T","P","/","1",".","0">>
sHTTP20 == <<"H","T","T","P","/","2",".","0">>
sHost == <<"H","o","s","t">>
sConnection == <<"C","o","n","n","e","c","t","i","o","n">>
sContentLength == <<"C","o","n","t","e","n","t","-","L","e","n","g","t","h">>
sTransferEncoding ==
  <<"T","r","a","n","s","f","e","r","-","E","n","c","o","d","i","n","g">>
sChunked == <<"c","h","u","n","k","e","d">>
sClose == <<"c","l","o","s","e">>
sKeepAlive == <<"k","e","e","p","-","a","l","i","v","e">>

DigitChar(d) ==
  CASE d = 0 -> "0" [] d = 1 -> "1" [] d = 2 -> "2" [] d = 3 -> "3"
    [] d = 4 -> "4" [] d = 5 -> "5" [] d = 6 -> "6" [] d = 7 -> "7"
    [] d = 8 -> "8" [] d = 9 -> "9" [] d = 10 -> "a" [] d = 11 -> "b"
    [] d = 12 -> "c" [] d = 13 -> "d" [] d = 14 -> "e" [] d = 15 -> "f"

\* std::to_string(n) for n >= 0, and its base-16 counterpart
RECURSIVE ToDigits(_, _)
ToDigits(n, base) ==
  IF n < base THEN <<DigitChar(n)>>
  ELSE ToDigits(n \div base, base) \o <<DigitChar(n % base)>>
to_string(n) == ToDigits(n, 10)

RequestLine(method, target, version) ==
  method \o <<SP>> \o target \o <<SP>> \o version \o CRLF
HeaderLine(name, value) == name \o <<":", SP>> \o value \o CRLF

RECURSIVE ChunkedBody(_)
ChunkedBody(chunks) ==
  IF chunks = <<>> THEN <<"0">> \o CRLF \o CRLF
  ELSE ToDigits(Len(Head(chunks)), 16) \o CRLF \o Head(chunks) \o CRLF
       \o ChunkedBody(Tail(chunks))

NoBodyMessage(method, version) ==
  RequestLine(method, <<"/">>, version) \o HeaderLine(sHost, <<"x">>) \o CRLF
ContentLengthMessage(body) ==
  RequestLine(sPOST, <<"/">>, sHTTP11) \o HeaderLine(sHost, <<"x">>)
  \o HeaderLine(sContentLength, to_string(Len(body))) \o CRLF \o body
ChunkedMessage(chunks) ==
  RequestLine(sPOST, <<"/">>, sHTTP11) \o HeaderLine(sHost, <<"x">>)
  \o HeaderLine(sTransferEncoding, sChunked) \o CRLF \o ChunkedBody(chunks)

\* bodies and chunk lists without CR LF inside the data, and with it
PlainBodies == {<<"a","b","c","d","e">>}
CrlfBodies == {<<"a",CR,LF,"b">>}
PlainChunkLists == {<<<<"h","e","l","l","o">>>>, <<<<"a","b">>, <<"c">>>>}
CrlfChunkLists == {<<<<"a",CR,LF,"b">>>>}

ValidMessages ==
  {NoBodyMessage(sGET, sHTTP11), NoBodyMessage(sGET, sHTTP10)}
  \cup {ContentLengthMessage(b) : b \in PlainBodies \cup CrlfBodies}
  \cup {ChunkedMessage(c) : c \in PlainChunkLists \cup CrlfChunkLists}

\* every way of feeding msg: at once, in two pieces, byte by byte
Cuts(msg) ==
  {<<msg>>}
  \cup {<<SubSeq(msg, 1, k), SubSeq(msg, k + 1, Len(msg))>> :
          k \in 1..(Len(msg) - 1)}
  \cup {[i \in 1..Len(msg) |-> <<msg[i]>>]}

\* ------------------------------------------------------------------------
\* HttpResponse
\* ------------------------------------------------------------------------
\* the modelled bytes in ascending byte value (std::map orders keys by it)
AsciiOrder ==
  <<HT,LF,CR,SP,"!","DQUOTE","#","$","%","&","SQUOTE","(",")","*","+",",",
    "-",".","/","0","1","2","3","4","5","6","7","8","9",":",";","<","=",">",
    "?","@","A","B","C","D","E","F","G","H","I","J","K","L","M","N","O","P",
    "Q","R","S","T","U","V","W","X","Y","Z","[","BSLASH","]","^","_",
    "BQUOTE","a","b","c","d","e","f","g","h","i","j","k","l","m","n","o",
    "p","q","r","s","t","u","v","w","x","y","z","{","|","}","~">>

Ord(c) == CHOOSE i \in 1..Len(AsciiOrder) : AsciiOrder[i] = c

\* std::string operator< : lexicographic comparison by byte value
RECURSIVE LexLess(_, _)
LexLess(a, b) ==
  IF b = <<>> THEN FALSE
  ELSE IF a = <<>> THEN TRUE
  ELSE IF Head(a) # Head(b) THEN Ord(Head(a)) < Ord(Head(b))
  ELSE LexLess(Tail(a), Tail(b))

\* the keys of a std::map in iteration order
RECURSIVE SortedKeys(_)
SortedKeys(keys) ==
  IF keys = {} THEN <<>>
  ELSE LET first == CHOOSE k \in keys : \A o \in keys \ {k} : LexLess(k, o)
       IN <<first>> \o SortedKeys(keys \ {first})

sTextPlain == <<"t","e","x","t","/","p","l","a","i","n">>
sTextHtml == <<"t","e","x","t","/","h","t","m","l">>
sLocation == <<"L","o","c","a","t","i","o","n">>

HttpResponse ==
  [status_code |-> I_AM_TEAPOD, headers |-> NoHeaders, body |-> <<>>,
   content_type |-> <<>>, is_error_response |-> FALSE,
   is_keep_alive_connection |-> TRUE]

\* HttpStatusCode::UKNOWN is 0
setStatusCode(resp, code) ==
  IF code = 0 THEN [resp EXCEPT !.status_code = I_AM_TEAPOD]
  ELSE [resp EXCEPT !.status_code = code]

\* HttpResponse::insertHeader: assigns only when the key is already present
HttpResponse_insertHeader(resp, field_name, value) ==
  LET lowercase_name == toLowerCase(field_name)
  IN IF lowercase_name \in DOMAIN resp.headers
       THEN [resp EXCEPT !.headers[lowercase_name] = value]
       ELSE resp

HttpResponse_setBody(resp, body, content_type) ==
  [resp EXCEPT !.body = body, !.content_type = content_type]

setContentType(resp, content_type) ==
  [resp EXCEPT !.content_type = content_type]

setConnectionHeader(resp, request_connection, request_http_version) ==
  IF \/ resp.status_code = BAD_REQUEST
     \/ resp.status_code = REQUEST_TIMEOUT
     \/ resp.status_code >= LENGTH_REQUIRED
     \/ request_connection = sClose
     \/ (request_http_version = sHTTP10 /\ request_connection # sKeepAlive)
    THEN [HttpResponse_insertHeader(resp, sConnection, sClose)
            EXCEPT !.is_keep_alive_connection = FALSE]
    ELSE [HttpResponse_insertHeader(resp, sConnection, sKeepAlive)
            EXCEPT !.is_keep_alive_connection = TRUE]

setErrorResponse(resp, code, message) ==
  [HttpResponse_setBody(setStatusCode(resp, code), message, sTextPlain)
     EXCEPT !.is_error_response = TRUE]

\* the built-in page: one token per fixed HTML fragment, the status digits
\* and the previous body ("reason") in between
setDefaultCatErrorPage(resp) ==
  setContentType(
    HttpResponse_setBody(resp,
      <<"<html><title>Error ">> \o to_string(resp.status_code)
      \o <<"</title>(reason: ">> \o resp.body
      \o <<")<img src='https://http.cat/">> \o to_string(resp.status_code)
      \o <<"'></html>">>,
      sTextPlain),
    sTextHtml)

\* setErrorPageBody: page is NoErrorPage when error_pages has no entry for
\* the status or the file is missing or unreadable, else [body, mime]
NoErrorPage == [found |-> FALSE]
setErrorPageBody(resp, page) ==
  IF page.found THEN HttpResponse_setBody(resp, page.body, page.mime)
  ELSE setDefaultCatErrorPage(resp)

whatReasonPhrase(code) ==
  CASE code = 100 -> "Continue" [] code = 101 -> "Switching Protocols"
    [] code = 200 -> "OK" [] code = 201 -> "Created"
    [] code = 202 -> "Accepted"
    [] code = 203 -> "Non-Authoritative Information"
    [] code = 204 -> "No Content" [] code = 205 -> "Reset Content"
    [] code = 206 -> "Partial Content" [] code = 300 -> "Multiple Choices"
    [] code = 301 -> "Moved Permanently" [] code = 302 -> "Found"
    [] code = 303 -> "See Other" [] code = 304 -> "Not Modified"
    [] code = 305 -> "Use Proxy" [] code = 307 -> "Temporary Redirect"
    [] code = 400 -> "Bad Request" [] code = 401 -> "Unauthorized"
    [] code = 403 -> "Forbidden" [] code = 404 -> "Not Found"
    [] code = 405 -> "Method Not Allowed" [] code = 406 -> "Not Acceptable"
    [] code = 407 -> "Proxy Authentication Required"
    [] code = 408 -> "Request Timeout" [] code = 409 -> "Conflict"
    [] code = 410 -> "Gone" [] code = 411 -> "Length Required"
    [] code = 413 -> "Content Too Large" [] code = 414 -> "URI Too Long"
    [] code = 415 -> "Unsupported Media Type"
    [] code = 416 -> "Range Not Satisfiable"
    [] code = 417 -> "Expectation Failed" [] code = 418 -> "I'm a teapot"
    [] code = 429 -> "Too Many Requests"
    [] code = 500 -> "Internal Server Error"
    [] code = 501 -> "Not Implemented" [] code = 502 -> "Bad Gateway"
    [] code = 503 -> "Service Unavailable" [] code = 504 -> "Gateway Timeout"
    [] code = 505 -> "HTTP Version Not Supported"
    [] OTHER -> "Unknown"

\* the date text is one token; its value comes from the wall clock
whatDateGMT == <<"<IMF-fixdate>">>

RECURSIVE Capitalize(_, _)
Capitalize(name, is_uppercase) ==
  IF name = <<>> THEN <<>>
  ELSE IF is_uppercase /\ isalpha(Head(name))
    THEN <<toupper(Head(name))>> \o Capitalize(Tail(name), FALSE)
  ELSE IF Head(name) = "-"
    THEN <<Head(name)>> \o Capitalize(Tail(name), TRUE)
  ELSE <<Head(name)>> \o Capitalize(Tail(name), is_uppercase)

capitalizeHeaderFieldName(field_name) == Capitalize(field_name, TRUE)

\* the for loop of convertToString over _headers
RECURSIVE HeaderBlock(_, _)
HeaderBlock(headers, keys) ==
  IF keys = <<>> THEN <<>>
  ELSE HeaderLine(capitalizeHeaderFieldName(Head(keys)), headers[Head(keys)])
       \o HeaderBlock(headers, Tail(keys))

sServer == <<"S","e","r","v","e","r">>
sDate == <<"D","a","t","e">>
sContentType == <<"C","o","n","t","e","n","t","-","T","y","p","e">>

\* the status line and the mandatory headers written by convertToString
MandatoryBlock(resp) ==
  sHTTP11 \o <<SP>> \o to_string(resp.status_code) \o <<SP>>
  \o <<whatReasonPhrase(resp.status_code)>> \o CRLF
  \o HeaderLine(sServer, <<"W","e","b","s","e","r","v">>)
  \o HeaderLine(sDate, whatDateGMT)
  \o HeaderLine(sContentLength,
                IF resp.body = <<>> THEN <<"0">>
                ELSE to_string(Len(resp.body)))
  \o (IF resp.body # <<>>
        THEN HeaderLine(sContentType,
                        IF resp.content_type = <<>> THEN sTextPlain
                        ELSE resp.content_type)
        ELSE <<>>)

\* mutant: the empty line that ends the headers is left out
convertToString_without_empty_line(resp) ==
  MandatoryBlock(resp)
  \o HeaderBlock(resp.headers, SortedKeys(DOMAIN resp.headers))
  \o resp.body

convertToString(resp) ==
  MandatoryBlock(resp)
  \o HeaderBlock(resp.headers, SortedKeys(DOMAIN resp.headers))
  \o CRLF \o resp.body

\* ------------------------------------------------------------------------
\* Connection
\* ------------------------------------------------------------------------
WEBSERV_CONNECTION_TIMEOUT_SEC == 65

Connection(client_socket_fd, server_socket_fd, now_) ==
  [client_fd |-> client_socket_fd, server_fd |-> server_socket_fd,
   request |-> HttpRequest, write_buffer |-> <<>>, keep_alive |-> TRUE,
   last_active |-> now_]

updateLastActiveTime(conn, now_) == [conn EXCEPT !.last_active = now_]

\* mutant: a connection idle for exactly the timeout is not timed out
isTimedOut_after(conn, timeout, now_) == (now_ - conn.last_active) > timeout

\* elapsed whole seconds since _last_active against the timeout
isTimedOut(conn, timeout, now_) == (now_ - conn.last_active) >= timeout

\* mutant: every connection is reported as keep-alive
keepAlive_always(conn) == TRUE

keepAlive(conn) == conn.keep_alive

\* mutant: the Request is not reset after the response
cleanup_write_buffer_only(conn) == [conn EXCEPT !.write_buffer = <<>>]

cleanup(conn) ==
  [conn EXCEPT !.request = reset(@), !.write_buffer = <<>>]

\* sendResponse: one send() of the write buffer (ok is FALSE when it
\* returns -1), then cleanup
sendResponse(conn, now_, send_ok) ==
  [conn |-> cleanup(updateLastActiveTime(conn, now_)),
   sent |-> <<[fd |-> conn.client_fd, bytes |-> conn.write_buffer,
               ok |-> send_ok]>>]

\* _keep_alive and _write_buffer taken from a finished response
Buffered(conn, response) ==
  [conn EXCEPT !.keep_alive = response.is_keep_alive_connection,
               !.write_buffer = convertToString(response)]

\* mutant: the parse-error response leaves _keep_alive as it was
buildParserErrorResponse_keep_alive(conn, page) ==
  [conn EXCEPT
     !.write_buffer =
       convertToString(
         HttpResponse_insertHeader(
           setErrorPageBody(
             HttpResponse_setBody(
               setStatusCode(HttpResponse, conn.request.status_code),
               <<conn.request.err_message>>, sTextPlain),
             page),
           sConnection, sClose))]

buildParserErrorResponse(conn, page) ==
  [conn EXCEPT
     !.keep_alive = FALSE,
     !.write_buffer =
       convertToString(
         HttpResponse_insertHeader(
           setErrorPageBody(
             HttpResponse_setBody(
               setStatusCode(HttpResponse, conn.request.status_code),
               <<conn.request.err_message>>, sTextPlain),
             page),
           sConnection, sClose))]

buildMethodHandlerErrorResponse(conn, response, page) ==
  Buffered(conn,
           setConnectionHeader(setErrorPageBody(response, page),
                               getHeader(conn.request, sConnection),
                               conn.request.http_version))

\* what HttpMethodHandler::processMethod can hand back to the Connection:
\* a served file, a handler error, a body-size rejection
processMethodOutcomes ==
  {setStatusCode(HttpResponse_setBody(HttpResponse, <<"<file>">>, sTextHtml),
                 200),
   setErrorResponse(HttpResponse, 404, <<"File not found">>),
   setErrorResponse(HttpResponse, 413, <<"Request body size exceeds limit">>)}

ErrorPages ==
  {NoErrorPage, [found |-> TRUE, body |-> <<"<custom page>">>,
                 mime |-> sTextHtml]}

\* the else branch of processRequest: the handler's response, completed as
\* an error response or with the Connection header, becomes the write buffer
buildResponse(conn, response, page) ==
  IF response.is_error_response
    THEN buildMethodHandlerErrorResponse(conn, response, page)
    ELSE Buffered(conn,
                  setConnectionHeader(response,
                                      getHeader(conn.request, sConnection),
                                      conn.request.http_version))

\* the branches of processRequest on the parser's status; env carries what
\* the collaborators return during the call: the handler's response, the
\* configured error page, the clock and the result of send()
Respond(conn, status, env) ==
  CASE status = "WAIT_FOR_DATA" -> [conn |-> conn, sent |-> <<>>]
    [] status = "ERROR" ->
         sendResponse(buildParserErrorResponse(conn, env.page),
                      env.now, env.send_ok)
    [] OTHER ->
         sendResponse(buildResponse(conn, env.response, env.page),
                      env.now, env.send_ok)

\* what one processRequest call leaves: the Connection, the send() calls it
\* made, the parser's status and the Request as parsed (before cleanup)
Outcome(out, res) ==
  [conn |-> out.conn, sent |-> out.sent, status |-> res.status,
   parsed |-> res.req]

Parsed(conn, res, env) ==
  Outcome(Respond([conn EXCEPT !.request = res.req], res.status, env), res)

\* processRequest(data)
processRequest(conn, data, env) ==
  Parsed(conn, parseRequest(data, conn.request), env)

\* ------------------------------------------------------------------------
\* State
\* ------------------------------------------------------------------------
VARIABLES
  p_msg, p_pieces, p_req, p_status,   \* parser harness
  rs_resp, rs_last,                   \* response harness
  connections,          \* Webserv::_connections: client fd -> Connection
  epoll,                \* fds registered with the epoll instance
  open_fds,             \* descriptors open in the process
  close_calls,          \* close() calls per fd since accept returned it
  now,                  \* std::chrono::steady_clock, in seconds
  shutdown_requested,   \* the process-wide flag
  pc,                   \* position of Webserv::run
  events,               \* fds reported by epoll_wait and not yet dispatched
  fd_,                  \* the fd of the event being dispatched, or -1
  last_call,            \* what the last handler step did (history)
  cgi_pc,               \* position of CgiHandler::execute
  cgi_body,             \* size of the request body against the pipe buffer
  cgi_child,            \* the forked child: its state and what it does
  cgi_fds,              \* pipe ends open in the server process
  cgi_created,          \* pipe ends this call created
  cgi_closes,           \* close() calls per pipe end during this call
  cgi_waited,           \* seconds spent in write() before start_time
  cgi_elapsed,          \* seconds since start_time
  cgi_result,           \* how the call ended and the status it returned
  cgi_runs,             \* CGI requests started so far
  m_in, m_out           \* method handler harness: inputs and result

parserVars == <<p_msg, p_pieces, p_req, p_status>>
responseVars == <<rs_resp, rs_last>>
serverVars == <<connections, epoll, open_fds, close_calls, now,
                shutdown_requested, pc, events, fd_, last_call>>
cgiVars == <<cgi_pc, cgi_body, cgi_child, cgi_fds, cgi_created, cgi_closes,
             cgi_waited, cgi_elapsed, cgi_result, cgi_runs>>
methodVars == <<m_in, m_out>>
unitVars == <<cgiVars, methodVars>>
harnessVars == <<parserVars, responseVars, unitVars>>
vars == <<parserVars, responseVars, serverVars, unitVars>>

\* bounds of the model
MaxClients == 2
MaxTime == 66
MaxBuffer == 46

ListenFds == {3}
ClientFdPool == 5..(4 + MaxClients)
TickSteps == {32, 33}
NoCall == [kind |-> "none"]
NoConnections == [fd \in {} |-> <<>>]

ParserIdle ==
  /\ p_msg = <<>> /\ p_pieces = <<>>
  /\ p_req = HttpRequest /\ p_status = "NONE"
ResponseIdle ==
  /\ rs_resp = HttpResponse /\ rs_last = [op |-> "constructor"]
\* the four pipe ends of one CGI call
InputPipe == {"input_pipe[0]", "input_pipe[1]"}
OutputPipe == {"output_pipe[0]", "output_pipe[1]"}
PipeEnds == InputPipe \cup OutputPipe
NoChild == [state |-> "none", reads_stdin |-> FALSE, killed |-> FALSE]
NoResult == [how |-> "none", status |-> 0]

CgiIdle ==
  /\ cgi_pc = "idle" /\ cgi_body = "empty" /\ cgi_child = NoChild
  /\ cgi_fds = {} /\ cgi_created = {}
  /\ cgi_closes = [e \in PipeEnds |-> 0]
  /\ cgi_waited = 0 /\ cgi_elapsed = 0
  /\ cgi_result = NoResult /\ cgi_runs = 0
MethodIdle == m_in = [op |-> "none"] /\ m_out = [op |-> "none"]
UnitIdle == CgiIdle /\ MethodIdle

ServerIdle ==
  /\ connections = NoConnections /\ epoll = {} /\ open_fds = {}
  /\ close_calls = [fd \in ClientFdPool |-> 0]
  /\ now = 0 /\ shutdown_requested = 0 /\ pc = "idle"
  /\ events = {} /\ fd_ = -1 /\ last_call = NoCall

\* requests and fragments a client may deliver in one recv
GetWhole == NoBodyMessage(sGET, sHTTP11)
GetHead == RequestLine(sGET, <<"/">>, sHTTP11)
GetTail == HeaderLine(sHost, <<"x">>) \o CRLF
GetClose ==
  RequestLine(sGET, <<"/">>, sHTTP11) \o HeaderLine(sHost, <<"x">>)
  \o HeaderLine(sConnection, sClose) \o CRLF
GetNoHost ==
  RequestLine(sGET, <<"/">>, sHTTP11)
  \o HeaderLine(sConnection, sKeepAlive) \o CRLF
RecvData ==
  {GetWhole, GetHead, GetTail, GetClose, GetNoHost,
   NoBodyMessage(sPATCH, sHTTP11), NoBodyMessage(sGET, sHTTP20)}

\* what a client reading the bytes of one response finds in them: the
\* status code of the status line and the value of the Connection header
StatusDigits(digits) ==
  IF SpanLen(digits, DigitChars) = 3 THEN DigitsValue(digits, 10, 0) ELSE 0

StatusOf(bytes) == StatusDigits(Substr(bytes, Len(sHTTP11) + 1, 3))

HasHeaderLine(head, name, value) ==
  Find(head, CRLF \o HeaderLine(name, value), 0) # NPOS

ConnectionHeaderIn(head) ==
  IF HasHeaderLine(head, sConnection, sClose) THEN "close"
  ELSE IF HasHeaderLine(head, sConnection, sKeepAlive) THEN "keep-alive"
  ELSE "none"

ConnectionHeaderOf(bytes) ==
  ConnectionHeaderIn(Substr(bytes, 0, Find(bytes, CRLF \o CRLF, 0) + 2))

\* ------------------------------------------------------------------------
\* Webserv
\* ------------------------------------------------------------------------
\* state after the Webserv constructor: listening sockets open and
\* registered, no connection
InitServer ==
  /\ ParserIdle /\ ResponseIdle /\ UnitIdle
  /\ connections = NoConnections
  /\ epoll = ListenFds
  /\ open_fds = ListenFds
  /\ close_calls = [fd \in ClientFdPool |-> 0]
  /\ now = 0
  /\ shutdown_requested = 0
  /\ pc = "wait"
  /\ events = {} /\ fd_ = -1
  /\ last_call = NoCall

\* mutant: the entry stays in the table
erase_nothing(table, fd) == table

\* _connections.erase(fd)
erase(table, fd) == [x \in DOMAIN table \ {fd} |-> table[x]]

\* mutant: ~Connection closes nothing
Closed_nothing(dropped) == {}

\* ~Connection on each of the Connections dropped from the table:
\* close(_client_fd) when it is not -1
Closed(dropped) == {connections[fd].client_fd : fd \in dropped} \ {-1}

\* the close() calls made by the destructors of the dropped Connections
CloseCalls(dropped) ==
  [fd \in ClientFdPool |->
     IF fd \in Closed(dropped) THEN close_calls[fd] + 1
     ELSE close_calls[fd]]

DropConnections(dropped) ==
  /\ open_fds' = open_fds \ Closed(dropped)
  /\ close_calls' = CloseCalls(dropped)

\* while (shutdown_requested == false) { epoll_wait(...): any set of
\* registered fds may be reported ready
EpollWait ==
  /\ UNCHANGED harnessVars
  /\ pc = "wait" /\ shutdown_requested = 0
  /\ \E ready \in SUBSET epoll :
       /\ events' = ready
       /\ pc' = IF ready = {} THEN "sweep" ELSE "dispatch"
  /\ fd_' = -1
  /\ last_call' = NoCall
  /\ UNCHANGED <<connections, epoll, open_fds, close_calls, now,
                 shutdown_requested>>

\* epoll_wait returns -1: run throws
EpollWaitFails ==
  /\ UNCHANGED harnessVars
  /\ pc = "wait" /\ shutdown_requested = 0
  /\ pc' = "thrown"
  /\ last_call' = NoCall
  /\ UNCHANGED <<connections, epoll, open_fds, close_calls, now,
                 shutdown_requested, events, fd_>>

\* the loop condition fails: run returns
RunReturns ==
  /\ UNCHANGED harnessVars
  /\ pc = "wait" /\ shutdown_requested # 0
  /\ pc' = "returned"
  /\ last_call' = NoCall
  /\ UNCHANGED <<connections, epoll, open_fds, close_calls, now,
                 shutdown_requested, events, fd_>>

\* for (int i = 0; i < events_ready; i++): the next event of the batch, in
\* the order the kernel wrote them
Dispatch(fd) ==
  /\ pc = "dispatch"
  /\ fd \in events
  /\ events' = events \ {fd}
  /\ fd_' = fd

\* addConnection, every step succeeding; accept returns the lowest free fd
AddConnection ==
  /\ UNCHANGED harnessVars
  /\ \E fd \in events : Dispatch(fd) /\ fd \notin DOMAIN connections
                        /\ fd \in ListenFds
                        /\ ClientFdPool \ open_fds # {}
                        /\ LET client_socketfd ==
                                 MinOf(ClientFdPool \ open_fds)
                           IN /\ open_fds' = open_fds \cup {client_socketfd}
                              /\ close_calls' =
                                   [close_calls EXCEPT
                                      ![client_socketfd] = 0]
                              /\ epoll' = epoll \cup {client_socketfd}
                              /\ connections' =
                                   [x \in DOMAIN connections
                                            \cup {client_socketfd} |->
                                      IF x = client_socketfd
                                        THEN Connection(client_socketfd,
                                                        fd, now)
                                        ELSE connections[x]]
                              /\ last_call' = [kind |-> "accept",
                                               fd |-> client_socketfd]
  /\ pc' = IF events' = {} THEN "sweep" ELSE "dispatch"
  /\ UNCHANGED <<now, shutdown_requested>>

\* accept returns -1: addConnection throws out of run
AddConnectionAcceptFails ==
  /\ UNCHANGED harnessVars
  /\ \E fd \in events : Dispatch(fd) /\ fd \notin DOMAIN connections
  /\ pc' = "thrown"
  /\ last_call' = [kind |-> "accept_failed"]
  /\ UNCHANGED <<connections, epoll, open_fds, close_calls, now,
                 shutdown_requested>>

\* setClientSocketOptions throws after accept succeeded
AddConnectionSetsockoptFails ==
  /\ UNCHANGED harnessVars
  /\ \E fd \in events : Dispatch(fd) /\ fd \notin DOMAIN connections
                        /\ fd \in ListenFds
  /\ ClientFdPool \ open_fds # {}
  /\ LET client_socketfd == MinOf(ClientFdPool \ open_fds)
     IN /\ open_fds' = open_fds \cup {client_socketfd}
        /\ close_calls' = [close_calls EXCEPT ![client_socketfd] = 0]
        /\ last_call' = [kind |-> "setsockopt_failed",
                         fd |-> client_socketfd]
  /\ pc' = "thrown"
  /\ UNCHANGED <<connections, epoll, now, shutdown_requested>>

\* epoll_ctl(ADD) fails after accept: the client fd is closed, then throw
AddConnectionEpollCtlFails ==
  /\ UNCHANGED harnessVars
  /\ \E fd \in events : Dispatch(fd) /\ fd \notin DOMAIN connections
                        /\ fd \in ListenFds
  /\ ClientFdPool \ open_fds # {}
  /\ LET client_socketfd == MinOf(ClientFdPool \ open_fds)
     IN /\ close_calls' = [close_calls EXCEPT ![client_socketfd] = 1]
        /\ last_call' = [kind |-> "epoll_ctl_failed",
                         fd |-> client_socketfd]
  /\ pc' = "thrown"
  /\ UNCHANGED <<connections, epoll, open_fds, now, shutdown_requested>>

\* std::make_unique<Connection> throws (std::bad_alloc) after the client fd
\* was registered: the exception leaves addConnection and run
AddConnectionMakeUniqueFails ==
  /\ UNCHANGED harnessVars
  /\ \E fd \in events : Dispatch(fd) /\ fd \notin DOMAIN connections
                        /\ fd \in ListenFds
  /\ ClientFdPool \ open_fds # {}
  /\ LET client_socketfd == MinOf(ClientFdPool \ open_fds)
     IN /\ open_fds' = open_fds \cup {client_socketfd}
        /\ close_calls' = [close_calls EXCEPT ![client_socketfd] = 0]
        /\ epoll' = epoll \cup {client_socketfd}
        /\ last_call' = [kind |-> "make_unique_failed",
                         fd |-> client_socketfd]
  /\ pc' = "thrown"
  /\ UNCHANGED <<connections, now, shutdown_requested>>

\* handleConnection, recv returning 0 or a negative value:
\* epoll_ctl(DEL), then erase, whose ~Connection closes the fd
HandleConnectionRecvFails ==
  /\ UNCHANGED harnessVars
  /\ \E fd \in events :
       /\ Dispatch(fd) /\ fd \in DOMAIN connections
       /\ \E bytes_read \in {0, -1} :
            last_call' = [kind |-> "recv", fd |-> fd,
                          bytes_read |-> bytes_read, settled |-> FALSE]
       /\ epoll' = epoll \ {fd}
       /\ connections' = erase(connections, fd)
       /\ DropConnections({fd})
  /\ pc' = "keepalive"
  /\ UNCHANGED <<now, shutdown_requested>>

\* what the client of fd received from one processRequest call
Received(fd, data, out, bytes) ==
  [kind |-> "recv", fd |-> fd, bytes_read |-> Len(data),
   status |-> out.status, sent |-> Len(out.sent),
   code |-> StatusOf(bytes), connection |-> ConnectionHeaderOf(bytes),
   error_code |-> out.parsed.status_code,
   send_ok |-> (out.sent = <<>> \/ out.sent[1].ok),
   keep_alive |-> out.conn.keep_alive, settled |-> FALSE]

Processed(fd, data, out) ==
  /\ connections' = [connections EXCEPT ![fd] = out.conn]
  /\ last_call' =
       Received(fd, data, out,
                IF out.sent = <<>> THEN <<>> ELSE out.sent[1].bytes)

\* what the collaborators processRequest calls on the path of this parser
\* status may return: processMethod is called after DONE only, the error
\* page is looked up for error responses only, send() whenever a response
\* was built
MethodResults(status) ==
  IF status = "DONE" THEN processMethodOutcomes
  ELSE {HttpResponse}

PageResults(status, response) ==
  IF status = "ERROR" \/ (status = "DONE" /\ response.is_error_response)
    THEN ErrorPages
    ELSE {NoErrorPage}

SendResults(status) ==
  IF status = "WAIT_FOR_DATA" THEN {TRUE} ELSE BOOLEAN

\* the rest of processRequest once parseRequest has returned res, for each
\* thing the collaborators may return during the call
Answered(fd, data, res) ==
  \E response \in MethodResults(res.status) :
  \E page \in PageResults(res.status, response),
     send_ok \in SendResults(res.status) :
    Processed(fd, data,
              Parsed(connections[fd], res,
                     [response |-> response, page |-> page,
                      now |-> now, send_ok |-> send_ok]))

\* handleConnection, recv returning data: processRequest on the Connection
\* (parseRequest, then the branches on its status)
HandleConnection ==
  /\ UNCHANGED harnessVars
  /\ \E fd \in events :
       /\ Dispatch(fd) /\ fd \in DOMAIN connections
       /\ \E data \in RecvData :
            /\ Len(connections[fd].request.buffer) + Len(data) <= MaxBuffer
            /\ Answered(fd, data,
                        parseRequest(data, connections[fd].request))
  /\ pc' = "keepalive"
  /\ UNCHANGED <<epoll, open_fds, close_calls, now, shutdown_requested>>

\* handleKeepAliveConnection(fd)
HandleKeepAliveConnection ==
  /\ UNCHANGED harnessVars
  /\ pc = "keepalive"
  /\ IF fd_ \in DOMAIN connections /\ ~keepAlive(connections[fd_])
       THEN /\ epoll' = epoll \ {fd_}
            /\ connections' = erase(connections, fd_)
            /\ DropConnections({fd_})
       ELSE UNCHANGED <<epoll, connections, open_fds, close_calls>>
  /\ last_call' = [last_call EXCEPT !.settled = TRUE]
  /\ pc' = IF events = {} THEN "sweep" ELSE "dispatch"
  /\ UNCHANGED <<now, shutdown_requested, events, fd_>>

\* cleanupTimeOutConnections: the whole loop over _connections
TimedOutFds ==
  {fd \in DOMAIN connections :
     isTimedOut(connections[fd], WEBSERV_CONNECTION_TIMEOUT_SEC, now)}

CleanupTimeOutConnections ==
  /\ UNCHANGED harnessVars
  /\ pc = "sweep"
  /\ epoll' = epoll \ TimedOutFds
  /\ connections' =
       [fd \in DOMAIN connections \ TimedOutFds |-> connections[fd]]
  /\ DropConnections(TimedOutFds)
  /\ last_call' =
       [kind |-> "sweep",
        ages |-> [fd \in DOMAIN connections |->
                    now - connections[fd].last_active]]
  /\ pc' = "wait"
  /\ UNCHANGED <<now, shutdown_requested, events, fd_>>

\* mutant: the listening socket is closed before it is deregistered
CloseListening_close_first(fd) ==
  <<[op |-> "close", fd |-> fd], [op |-> "epoll_ctl_del", fd |-> fd]>>

\* the body of the loop of ~Webserv for one listening socket
CloseListening(fd) ==
  <<[op |-> "epoll_ctl_del", fd |-> fd], [op |-> "close", fd |-> fd]>>

\* the loop of ~Webserv over _port_to_servfd, then close(_epoll_fd)
RECURSIVE TeardownOps(_)
TeardownOps(fds) ==
  IF fds = {} THEN <<[op |-> "close_epoll", fd |-> -1]>>
  ELSE CloseListening(MinOf(fds)) \o TeardownOps(fds \ {MinOf(fds)})

\* the descriptors a sequence of teardown calls closes
ClosedBy(ops) == {ops[i].fd : i \in {j \in DOMAIN ops : ops[j].op = "close"}}

\* ~Webserv after run has returned or thrown: listening sockets are
\* deregistered and closed, the epoll fd is closed, _connections.clear()
\* runs every ~Connection
Destructor ==
  /\ UNCHANGED harnessVars
  /\ pc \in {"returned", "thrown"}
  /\ epoll' = {}
  /\ open_fds' = (open_fds \ ClosedBy(TeardownOps(ListenFds)))
                   \ Closed(DOMAIN connections)
  /\ close_calls' = CloseCalls(DOMAIN connections)
  /\ connections' = NoConnections
  /\ last_call' = [kind |-> "destructor", dropped |-> DOMAIN connections,
                   listening |-> open_fds \cap ListenFds,
                   ops |-> TeardownOps(ListenFds)]
  /\ pc' = "destroyed"
  /\ UNCHANGED <<now, shutdown_requested, events, fd_>>

\* set_exit_to_true(signal): the handler may run at any point of the loop
Signal ==
  /\ UNCHANGED harnessVars
  /\ shutdown_requested = 0
  /\ pc \in {"wait", "dispatch", "keepalive", "sweep"}
  /\ shutdown_requested' = 2
  /\ UNCHANGED <<connections, epoll, open_fds, close_calls, now, pc, events,
                 fd_, last_call>>

\* the steady clock advances between two passes of the loop
Tick ==
  /\ UNCHANGED harnessVars
  /\ pc = "wait"
  /\ \E d \in TickSteps : now + d <= MaxTime /\ now' = now + d
  /\ UNCHANGED <<connections, epoll, open_fds, close_calls,
                 shutdown_requested, pc, events, fd_, last_call>>

NextServer ==
  \/ EpollWait \/ EpollWaitFails \/ RunReturns
  \/ AddConnection \/ AddConnectionAcceptFails
  \/ AddConnectionSetsockoptFails \/ AddConnectionEpollCtlFails
  \/ AddConnectionMakeUniqueFails
  \/ HandleConnectionRecvFails \/ HandleConnection
  \/ HandleKeepAliveConnection \/ CleanupTimeOutConnections
  \/ Destructor \/ Signal \/ Tick

Spec == InitServer /\ [][NextServer]_vars

\* ------------------------------------------------------------------------
\* Parser harness: a fresh HttpRequest fed one piece per parseRequest call
\* ------------------------------------------------------------------------

InitParser ==
  /\ ResponseIdle /\ ServerIdle /\ UnitIdle
  /\ p_msg \in ValidMessages
  /\ p_pieces \in Cuts(p_msg)
  /\ p_req = HttpRequest
  /\ p_status = "NONE"

ParserFeed ==
  /\ p_pieces # <<>>
  /\ LET res == parseRequest(Head(p_pieces), p_req)
     IN /\ p_req' = res.req
        /\ p_status' = res.status
  /\ p_pieces' = Tail(p_pieces)
  /\ UNCHANGED <<p_msg, responseVars, serverVars, unitVars>>

NextParser == ParserFeed

SpecParser == InitParser /\ [][NextParser]_vars

\* the fields a caller can observe on a parsed Request
SameRequest(a, b) ==
  /\ a.method_raw = b.method_raw /\ a.method_code = b.method_code
  /\ a.request_target = b.request_target
  /\ a.http_version = b.http_version
  /\ a.headers = b.headers
  /\ a.body = b.body /\ a.body_length = b.body_length
  /\ a.state = b.state /\ a.is_error = b.is_error

\* C1: when every piece of a valid request has been fed, the last call
\* returned DONE and the Request equals the one a single call on the whole
\* message produces (COMPLETE, no error).
C1_Resumable ==
  p_pieces = <<>> =>
    /\ p_status = "DONE"
    /\ p_req.state = "COMPLETE" /\ ~p_req.is_error
    /\ SameRequest(p_req, parseRequest(p_msg, HttpRequest).req)

\* the valid messages whose chunk data contains CRLF
HasCrlfInChunk ==
  p_msg \in {ChunkedMessage(c) : c \in CrlfChunkLists}

C1_ExceptCrlfChunk == ~HasCrlfInChunk => C1_Resumable

\* ------------------------------------------------------------------------
\* Response harness: setters applied to one HttpResponse object
\* ------------------------------------------------------------------------

StatusCodes == {200, 201, 204, 301, 400, 403, 404, 405, 408, 409, 410, 411,
                413, 500, 501, 504, 505}
sCloseCapital == <<"C","l","o","s","e">>
sKeepAliveCapital == <<"K","e","e","p","-","A","l","i","v","e">>
\* request Connection values (<<>>: header absent) and versions
RequestConnections ==
  {<<>>, sClose, sKeepAlive, sCloseCapital, sKeepAliveCapital}
RequestVersions == {sHTTP11, sHTTP10}
HeaderNames ==
  {sConnection, sLocation, sContentType,
   <<"x","-","c","u","s","t","o","m","-","h","e","a","d","e","r">>,
   <<"c","o","n","t","e","n","t","-","t","y","p","e">>}
HeaderValues == {sClose, <<"v","a","l","u","e">>}
ResponseBodies == {<<>>, <<"T","e","s","t">>}

InitResponse ==
  /\ ParserIdle /\ ServerIdle /\ UnitIdle
  /\ rs_resp = HttpResponse
  /\ rs_last = [op |-> "constructor"]

RsSetStatusCode ==
  /\ UNCHANGED <<parserVars, serverVars, unitVars>>
  /\ \E code \in StatusCodes \cup {0} :
       /\ rs_resp' = setStatusCode(rs_resp, code)
       /\ rs_last' = [op |-> "setStatusCode", code |-> code]

RsSetBody ==
  /\ UNCHANGED <<parserVars, serverVars, unitVars>>
  /\ \E body \in ResponseBodies :
       /\ rs_resp' = HttpResponse_setBody(rs_resp, body, sTextPlain)
       /\ rs_last' = [op |-> "setBody"]

RsInsertHeader ==
  /\ UNCHANGED <<parserVars, serverVars, unitVars>>
  /\ \E name \in HeaderNames, value \in HeaderValues :
       /\ rs_resp' = HttpResponse_insertHeader(rs_resp, name, value)
       /\ rs_last' = [op |-> "insertHeader", name |-> name, value |-> value,
                      held |-> toLowerCase(name) \in DOMAIN rs_resp.headers]

RsSetConnectionHeader ==
  /\ UNCHANGED <<parserVars, serverVars, unitVars>>
  /\ \E conn \in RequestConnections, version \in RequestVersions :
       /\ rs_resp' = setConnectionHeader(rs_resp, conn, version)
       /\ rs_last' = [op |-> "setConnectionHeader", connection |-> conn,
                      version |-> version]

RsConvertToString ==
  /\ UNCHANGED <<parserVars, serverVars, unitVars, rs_resp>>
  /\ rs_last.op # "convertToString"
  /\ rs_last' = [op |-> "convertToString",
                 bytes |-> convertToString(rs_resp)]

NextResponse ==
  \/ RsSetStatusCode \/ RsSetBody \/ RsInsertHeader \/ RsSetConnectionHeader
  \/ RsConvertToString

SpecResponse == InitResponse /\ [][NextResponse]_vars

\* the Connection policy as the specification states it
StatedClose(status, conn, version) ==
  \/ status = 400 \/ status = 408 \/ status >= 411
  \/ toLowerCase(conn) = sClose
  \/ (version = sHTTP10 /\ conn # sKeepAlive)

\* C4: setConnectionHeader sets the keep-alive flag to false exactly when
\* the status is 400, 408 or >= 411, or the lowercased request Connection
\* value is "close", or the version is HTTP/1.0 without Connection:
\* keep-alive, and to true in every other case.
C4_ConnectionPolicy ==
  rs_last.op = "setConnectionHeader" =>
    (rs_resp.is_keep_alive_connection
       <=> ~StatedClose(rs_resp.status_code, rs_last.connection,
                        rs_last.version))

\* C6: after insertHeader(name, value) on a Response that did not hold the
\* header, it is stored under the lowercased name with that value and
\* convertToString emits "Capitalized-Name: value" after the mandatory
\* headers.
C6_InsertHeaderStoresAndEmits ==
  (rs_last.op = "insertHeader" /\ ~rs_last.held) =>
    /\ toLowerCase(rs_last.name) \in DOMAIN rs_resp.headers
    /\ rs_resp.headers[toLowerCase(rs_last.name)] = rs_last.value
    /\ Find(convertToString(rs_resp),
            CRLF \o HeaderLine(capitalizeHeaderFieldName(
                                 toLowerCase(rs_last.name)), rs_last.value),
            Len(MandatoryBlock(rs_resp)) - 2) # NPOS

\* ------------------------------------------------------------------------
\* Properties of the server loop
\* ------------------------------------------------------------------------
\* the last step was a recv that delivered bytes to processRequest
ReceivedData == last_call.kind = "recv" /\ last_call.bytes_read > 0

\* the fields reset() leaves on a Request
IsReset(r) ==
  /\ r.state = "REQUEST_LINE" /\ r.buffer = <<>> /\ r.parsed_buffer_offset = 0
  /\ r.headers = NoHeaders /\ r.body = <<>> /\ ~r.is_error

Gone(fd) == fd \notin DOMAIN connections /\ fd \notin epoll

\* C2: processRequest sends nothing while the parser returns WAIT_FOR_DATA
\* and exactly one response when it returns DONE or ERROR, and the Request
\* of a connection that stays is reset when the call returns; between two
\* calls no Request is left complete or in error.
C2_Sequential ==
  /\ ReceivedData =>
       /\ last_call.status = "WAIT_FOR_DATA" => last_call.sent = 0
       /\ last_call.status \in {"DONE", "ERROR"} =>
            /\ last_call.sent = 1
            /\ last_call.fd \in DOMAIN connections =>
                 IsReset(connections[last_call.fd].request)
  /\ \A fd \in DOMAIN connections :
       /\ connections[fd].request.state # "COMPLETE"
       /\ ~connections[fd].request.is_error
       /\ connections[fd].write_buffer = <<>>

\* a request completed by a second recv has been answered
C2_Witness ==
  /\ ReceivedData /\ last_call.settled
  /\ last_call.bytes_read = Len(GetTail)
  /\ last_call.status = "DONE" /\ last_call.sent = 1
  /\ last_call.fd \in DOMAIN connections

\* C3: once handleKeepAliveConnection has run after a response was sent, the
\* connection is in the table and registered exactly when its keep-alive
\* flag is true; no connection whose flag is false is in the table when
\* the loop reads from a client again.
C3_KeptIffKeepAlive ==
  /\ (ReceivedData /\ last_call.settled /\ last_call.sent = 1) =>
       /\ last_call.keep_alive =>
            (last_call.fd \in DOMAIN connections /\ last_call.fd \in epoll)
       /\ ~last_call.keep_alive => Gone(last_call.fd)
  /\ pc # "keepalive" =>
       \A fd \in DOMAIN connections : connections[fd].keep_alive

\* a request asking for close was served and its connection removed
C3_Witness ==
  /\ ReceivedData /\ last_call.settled
  /\ last_call.status = "DONE" /\ last_call.sent = 1
  /\ ~last_call.keep_alive
  /\ Gone(last_call.fd)

\* C5: the bytes of every response processRequest sends hold a Connection
\* header, with value close when the connection is then removed and
\* keep-alive when it is retained.
C5_ConnectionHeaderAgrees ==
  (ReceivedData /\ last_call.sent = 1) =>
    /\ last_call.connection # "none"
    /\ last_call.settled =>
         /\ Gone(last_call.fd) => last_call.connection = "close"
         /\ last_call.fd \in DOMAIN connections =>
              last_call.connection = "keep-alive"

\* C7: when parseRequest returns ERROR exactly one response is sent, its
\* status line carries the status recorded on the Request (400, 501, 505 or
\* 500), and the connection is gone once handleKeepAliveConnection has run.
C7_ParseErrorAnswered ==
  (ReceivedData /\ last_call.status = "ERROR") =>
    /\ last_call.sent = 1
    /\ last_call.code = last_call.error_code
    /\ last_call.error_code \in {BAD_REQUEST, NOT_IMPLEMENTED,
                                 HTTP_VERSION_NOT_SUPPORTED,
                                 INTERNAL_SERVER_ERROR}
    /\ last_call.settled => Gone(last_call.fd)

\* an HTTP/1.1 request with Connection: keep-alive and no Host was refused
C7_Witness ==
  /\ ReceivedData /\ last_call.settled
  /\ last_call.status = "ERROR"
  /\ last_call.bytes_read = Len(GetNoHost)
  /\ last_call.code = BAD_REQUEST
  /\ Gone(last_call.fd)

\* C8: after a recv that delivered bytes, the connection's last-activity
\* timestamp is the time of that recv.
C8_RefreshedOnReceive ==
  (ReceivedData /\ last_call.fd \in DOMAIN connections) =>
    connections[last_call.fd].last_active = now

\* C9: after a sweep, every connection whose age was >= 65 s is out of the
\* table, deregistered and closed, and every connection whose age was
\* < 65 s is still in the table and registered.
C9_SweepAtTimeout ==
  last_call.kind = "sweep" =>
    \A fd \in DOMAIN last_call.ages :
      /\ last_call.ages[fd] >= WEBSERV_CONNECTION_TIMEOUT_SEC =>
           (Gone(fd) /\ fd \notin open_fds)
      /\ last_call.ages[fd] < WEBSERV_CONNECTION_TIMEOUT_SEC =>
           (fd \in DOMAIN connections /\ fd \in epoll /\ fd \in open_fds)

\* a sweep met one connection aged exactly 65 s and a younger one
C9_Witness ==
  /\ last_call.kind = "sweep"
  /\ \E fd \in DOMAIN last_call.ages :
       last_call.ages[fd] = WEBSERV_CONNECTION_TIMEOUT_SEC /\ Gone(fd)
  /\ \E fd \in DOMAIN last_call.ages :
       /\ last_call.ages[fd] < WEBSERV_CONNECTION_TIMEOUT_SEC
       /\ fd \in DOMAIN connections

\* the connections the last step dropped
Dropped ==
  CASE last_call.kind = "recv" /\ last_call.bytes_read <= 0 -> {last_call.fd}
    [] ReceivedData /\ last_call.settled /\ last_call.sent = 1
         /\ ~last_call.keep_alive -> {last_call.fd}
    [] last_call.kind = "sweep" ->
         {fd \in DOMAIN last_call.ages :
            last_call.ages[fd] >= WEBSERV_CONNECTION_TIMEOUT_SEC}
    [] last_call.kind = "destructor" -> last_call.dropped
    [] OTHER -> {}

\* C10: a dropped connection has no entry in the table, is not registered
\* and its fd has been closed exactly once; every entry of the table is
\* keyed by its own open, registered fd and no fd is closed twice.
C10_DroppedIsReleased ==
  /\ \A fd \in Dropped :
       /\ Gone(fd)
       /\ fd \notin open_fds
       /\ close_calls[fd] = 1
  /\ \A fd \in DOMAIN connections :
       /\ connections[fd].client_fd = fd
       /\ fd \in open_fds /\ fd \in epoll
       /\ close_calls[fd] = 0
  /\ \A fd \in ClientFdPool : close_calls[fd] <= 1

\* the server shut down with two connections open
C10_Witness ==
  /\ last_call.kind = "destructor"
  /\ Cardinality(last_call.dropped) = 2
  /\ \A fd \in last_call.dropped : fd \notin open_fds /\ close_calls[fd] = 1

\* the failures addConnection can meet after the listening socket was
\* reported ready
AcceptStepFailures ==
  {"accept_failed", "setsockopt_failed", "epoll_ctl_failed",
   "make_unique_failed"}

\* C11: no failure confined to one connection or one request (a failing
\* accept, setsockopt, epoll_ctl or Connection creation, a recv or send
\* error, a request answered with an error response) makes run terminate;
\* after such a step the loop is still running.
C11_LoopSurvivesLocalFailures ==
  (last_call.kind \in AcceptStepFailures \cup {"recv"}) =>
    pc \in {"dispatch", "keepalive", "sweep", "wait"}

\* C12: once handleKeepAliveConnection has run after a response whose send
\* failed, the connection is out of the table, deregistered and closed,
\* whatever the keep-alive flag of the response.
C12_SendFailureAbandons ==
  (ReceivedData /\ last_call.settled /\ last_call.sent = 1
     /\ ~last_call.send_ok) =>
    (Gone(last_call.fd) /\ last_call.fd \notin open_fds)

\* C13: when accept succeeded and a later step of addConnection failed,
\* the accepted fd has been closed and is neither registered nor in the
\* connection table.
C13_AcceptStepReleasesFd ==
  (last_call.kind \in AcceptStepFailures \ {"accept_failed"}) =>
    /\ last_call.fd \notin open_fds
    /\ close_calls[last_call.fd] = 1
    /\ Gone(last_call.fd)

\* position of op on fd in a sequence of teardown calls, 0 when absent
OpIndex(ops, op, fd) ==
  LET at == {i \in DOMAIN ops : ops[i].op = op /\ ops[i].fd = fd}
  IN IF at = {} THEN 0 ELSE MinOf(at)

\* a pass of the loop begins: epoll_wait is called
StartsIteration == pc = "wait" /\ pc' \in {"dispatch", "sweep", "thrown"}

\* the state teardown leaves: every listening socket was deregistered
\* before it was closed, the table is empty and every client fd it held
\* is closed
TornDown ==
  last_call.kind = "destructor" =>
    /\ \A fd \in ListenFds :
         /\ 0 < OpIndex(last_call.ops, "epoll_ctl_del", fd)
         /\ OpIndex(last_call.ops, "epoll_ctl_del", fd)
              < OpIndex(last_call.ops, "close", fd)
         /\ fd \notin epoll /\ fd \notin open_fds
    /\ connections = NoConnections
    /\ \A fd \in last_call.dropped :
         fd \notin open_fds /\ fd \notin epoll /\ close_calls[fd] = 1

\* C14: once the shutdown flag is non-zero run begins no new pass of the
\* loop, and teardown deregisters every listening socket before closing
\* it and then drops the connection table, closing every client fd.
C14_ShutdownStopsLoop ==
  /\ [][shutdown_requested # 0 => ~StartsIteration]_vars
  /\ []TornDown

\* run returned after the flag was set and teardown closed the listening
\* socket and the one connection of the table
C14_Witness ==
  /\ last_call.kind = "destructor" /\ pc = "destroyed"
  /\ shutdown_requested # 0
  /\ Cardinality(last_call.dropped) = 1
  /\ ListenFds \cap open_fds = {}

\* ------------------------------------------------------------------------
\* CgiHandler::execute from the creation of the pipes on
\* ------------------------------------------------------------------------
CGI_TIMEOUT == 30
GATEWAY_TIMEOUT == 504
OK == 200

\* bounds of the CGI model
MaxCgiRuns == 2
MaxWriteWait == 31

\* the request body against what the input pipe can buffer
BodySizes == {"empty", "fits_pipe", "exceeds_pipe"}

\* close() on each of the given pipe ends
closeEnds(closes, ends) ==
  [e \in PipeEnds |-> IF e \in ends THEN closes[e] + 1 ELSE closes[e]]

\* mutant: the parent keeps the write end of the output pipe after fork
AfterForkCloses_input_only == {"input_pipe[0]"}

\* the ends the parent closes right after a successful fork
AfterForkCloses == {"input_pipe[0]", "output_pipe[1]"}

\* execute is entered with a request whose script and interpreter resolved
CgiEnter(body) ==
  /\ cgi_pc \in {"idle", "returned"}
  /\ cgi_runs < MaxCgiRuns
  /\ cgi_runs' = cgi_runs + 1
  /\ cgi_body' = body
  /\ cgi_waited' = 0 /\ cgi_elapsed' = 0

\* pipe(input_pipe) == -1: 500, nothing was created
CgiInputPipeFails ==
  /\ UNCHANGED <<parserVars, responseVars, serverVars, methodVars>>
  /\ \E body \in BodySizes : CgiEnter(body)
  /\ cgi_created' = {}
  /\ cgi_closes' = [e \in PipeEnds |-> 0]
  /\ cgi_result' = [how |-> "input_pipe_failed",
                    status |-> INTERNAL_SERVER_ERROR]
  /\ cgi_child' = NoChild
  /\ cgi_pc' = "returned"
  /\ UNCHANGED cgi_fds

\* pipe(output_pipe) == -1: both ends of the input pipe are closed, 500
CgiOutputPipeFails ==
  /\ UNCHANGED <<parserVars, responseVars, serverVars, methodVars>>
  /\ \E body \in BodySizes : CgiEnter(body)
  /\ cgi_created' = InputPipe
  /\ cgi_fds' = (cgi_fds \cup InputPipe) \ InputPipe
  /\ cgi_closes' = closeEnds([e \in PipeEnds |-> 0], InputPipe)
  /\ cgi_result' = [how |-> "output_pipe_failed",
                    status |-> INTERNAL_SERVER_ERROR]
  /\ cgi_child' = NoChild
  /\ cgi_pc' = "returned"

\* fork() == -1: the four ends are closed, 500
CgiForkFails ==
  /\ UNCHANGED <<parserVars, responseVars, serverVars, methodVars>>
  /\ \E body \in BodySizes : CgiEnter(body)
  /\ cgi_created' = PipeEnds
  /\ cgi_fds' = (cgi_fds \cup PipeEnds) \ PipeEnds
  /\ cgi_closes' = closeEnds([e \in PipeEnds |-> 0], PipeEnds)
  /\ cgi_result' = [how |-> "fork_failed", status |-> INTERNAL_SERVER_ERROR]
  /\ cgi_child' = NoChild
  /\ cgi_pc' = "returned"

\* fork succeeds: the parent closes the ends it does not use; an empty body
\* is not written, a body the pipe can buffer is written at once and the
\* write end closed; a larger body leaves the parent inside write()
CgiFork ==
  /\ UNCHANGED <<parserVars, responseVars, serverVars, methodVars>>
  /\ \E body \in BodySizes, reads_stdin \in BOOLEAN :
       /\ CgiEnter(body)
       /\ cgi_child' = [state |-> "running", reads_stdin |-> reads_stdin,
                        killed |-> FALSE]
       /\ LET blocks == body = "exceeds_pipe"
              closing == IF blocks THEN AfterForkCloses
                         ELSE AfterForkCloses \cup {"input_pipe[1]"}
          IN /\ cgi_fds' = (cgi_fds \cup PipeEnds) \ closing
             /\ cgi_closes' = closeEnds([e \in PipeEnds |-> 0], closing)
             /\ cgi_pc' = IF blocks THEN "write" ELSE "loop"
  /\ cgi_created' = PipeEnds
  /\ cgi_result' = NoResult

\* the child read its stdin: write() returns, the write end is closed and
\* start_time is taken
CgiWriteCompletes ==
  /\ UNCHANGED <<parserVars, responseVars, serverVars, methodVars>>
  /\ cgi_pc = "write"
  /\ cgi_child.state = "running" /\ cgi_child.reads_stdin
  /\ cgi_fds' = cgi_fds \ {"input_pipe[1]"}
  /\ cgi_closes' = closeEnds(cgi_closes, {"input_pipe[1]"})
  /\ cgi_pc' = "loop"
  /\ UNCHANGED <<cgi_body, cgi_child, cgi_created, cgi_waited, cgi_elapsed,
                 cgi_result, cgi_runs>>

\* the child exited with the body unread: write() returns -1, a warning is
\* logged and the call goes on
CgiWriteFails ==
  /\ UNCHANGED <<parserVars, responseVars, serverVars, methodVars>>
  /\ cgi_pc = "write"
  /\ cgi_child.state = "exited"
  /\ cgi_fds' = cgi_fds \ {"input_pipe[1]"}
  /\ cgi_closes' = closeEnds(cgi_closes, {"input_pipe[1]"})
  /\ cgi_pc' = "loop"
  /\ UNCHANGED <<cgi_body, cgi_child, cgi_created, cgi_waited, cgi_elapsed,
                 cgi_result, cgi_runs>>

\* the child process ends by itself
CgiChildExits ==
  /\ UNCHANGED <<parserVars, responseVars, serverVars, methodVars>>
  /\ cgi_pc \in {"write", "loop"}
  /\ cgi_child.state = "running"
  /\ cgi_child' = [cgi_child EXCEPT !.state = "exited"]
  /\ UNCHANGED <<cgi_pc, cgi_body, cgi_fds, cgi_created, cgi_closes,
                 cgi_waited, cgi_elapsed, cgi_result, cgi_runs>>

\* the rest of executeCgiScript after the polling loop: the output pipe is
\* drained and closed and the response returned
CgiReturn(how, status) ==
  /\ cgi_fds' = cgi_fds \ {"output_pipe[0]"}
  /\ cgi_closes' = closeEnds(cgi_closes, {"output_pipe[0]"})
  /\ cgi_result' = [how |-> how, status |-> status]
  /\ cgi_pc' = "returned"

\* a pass of the polling loop that leaves it: waitpid(WNOHANG) returns the
\* pid of the exited child, or the elapsed time has reached CGI_TIMEOUT and
\* the child is killed and waited for
CgiPoll ==
  /\ UNCHANGED <<parserVars, responseVars, serverVars, methodVars>>
  /\ cgi_pc = "loop"
  /\ IF cgi_child.state = "exited"
       THEN /\ cgi_child' = [cgi_child EXCEPT !.state = "reaped"]
            /\ CgiReturn("exited", OK)
       ELSE /\ cgi_elapsed >= CGI_TIMEOUT
            /\ cgi_child' = [cgi_child EXCEPT !.state = "reaped",
                                              !.killed = TRUE]
            /\ CgiReturn("timeout", GATEWAY_TIMEOUT)
  /\ UNCHANGED <<cgi_body, cgi_created, cgi_waited, cgi_elapsed, cgi_runs>>

\* waitpid(WNOHANG) returns -1: the loop is left, the output parsed
CgiWaitpidFails ==
  /\ UNCHANGED <<parserVars, responseVars, serverVars, methodVars>>
  /\ cgi_pc = "loop"
  /\ CgiReturn("waitpid_failed", OK)
  /\ UNCHANGED <<cgi_body, cgi_child, cgi_created, cgi_waited, cgi_elapsed,
                 cgi_runs>>

\* a second passes: inside write() before start_time is taken, or in the
\* polling loop, whose 10 ms period lets no second pass unnoticed once the
\* timeout is reached
CgiTick ==
  /\ UNCHANGED <<parserVars, responseVars, serverVars, methodVars>>
  /\ IF cgi_pc = "write"
       THEN /\ cgi_waited < MaxWriteWait
            /\ cgi_waited' = cgi_waited + 1
            /\ UNCHANGED cgi_elapsed
       ELSE /\ cgi_pc = "loop"
            /\ cgi_elapsed < CGI_TIMEOUT
            /\ cgi_elapsed' = cgi_elapsed + 1
            /\ UNCHANGED cgi_waited
  /\ UNCHANGED <<cgi_pc, cgi_body, cgi_child, cgi_fds, cgi_created,
                 cgi_closes, cgi_result, cgi_runs>>

InitCgi == ParserIdle /\ ResponseIdle /\ ServerIdle /\ UnitIdle

NextCgi ==
  \/ CgiInputPipeFails \/ CgiOutputPipeFails \/ CgiForkFails \/ CgiFork
  \/ CgiWriteCompletes \/ CgiWriteFails \/ CgiChildExits
  \/ CgiPoll \/ CgiWaitpidFails \/ CgiTick

SpecCgi == InitCgi /\ [][NextCgi]_vars

\* the parent's own steps are taken when they can be, and time passes
FairSpecCgi ==
  /\ SpecCgi
  /\ WF_vars(CgiWriteCompletes) /\ WF_vars(CgiWriteFails)
  /\ WF_vars(CgiPoll) /\ WF_vars(CgiTick)

\* ------------------------------------------------------------------------
\* Properties of the CGI gateway
\* ------------------------------------------------------------------------
SinceFork == cgi_waited + cgi_elapsed

\* C15: no child is still running, unkilled, once more than 30 s have
\* passed since fork; a call that ends by timeout has killed and reaped the
\* child and returns 504; a call that ends because the child exited has
\* reaped it.
C15_TimeoutKillsAndReaps ==
  /\ ~(cgi_child.state = "running" /\ SinceFork > CGI_TIMEOUT)
  /\ (cgi_pc = "returned" /\ cgi_result.how = "timeout") =>
       /\ cgi_child.killed /\ cgi_child.state = "reaped"
       /\ cgi_result.status = GATEWAY_TIMEOUT
  /\ (cgi_pc = "returned" /\ cgi_result.how = "exited") =>
       cgi_child.state = "reaped"
  /\ cgi_child.killed => SinceFork >= CGI_TIMEOUT

\* the same for the calls whose write() did not wait
C15_WhenWriteReturnsAtOnce == cgi_waited = 0 => C15_TimeoutKillsAndReaps

\* C16: every CGI call that forked a child returns, whatever the child
\* does.
C16_ExecuteReturns == (cgi_pc \in {"write", "loop"}) ~> (cgi_pc = "returned")

\* the same once write() has returned
C16_OnceWriteReturned == (cgi_pc = "loop") ~> (cgi_pc = "returned")

\* C17: no pipe end is closed twice or without having been created, and
\* when execute has returned every end it created has been closed exactly
\* once and none is open.
C17_PipeEndsReleased ==
  /\ \A e \in PipeEnds :
       /\ cgi_closes[e] <= 1
       /\ cgi_closes[e] = 1 => (e \in cgi_created /\ e \notin cgi_fds)
  /\ cgi_pc = "returned" =>
       /\ cgi_fds = {}
       /\ \A e \in cgi_created : cgi_closes[e] = 1

\* a second CGI request ended by timeout with its four ends closed
C17_Witness ==
  /\ cgi_pc = "returned" /\ cgi_runs = MaxCgiRuns
  /\ cgi_result.how = "timeout"
  /\ cgi_created = PipeEnds /\ cgi_fds = {}
  /\ \A e \in PipeEnds : cgi_closes[e] = 1

\* ------------------------------------------------------------------------
\* HttpUtils path helpers and HttpMethodHandler::processMethod
\* ------------------------------------------------------------------------
MOVED_PERMANENTLY == 301
NOT_FOUND == 404
METHOD_NOT_ALLOWED == 405
PAYLOAD_TOO_LARGE == 413

\* HttpUtils::getLocation: the loop over config.locations from index i on;
\* the result is an index into locations, 0 standing for nullptr
RECURSIVE getLocationFrom(_, _, _, _, _)
getLocationFrom(request_uri, locations, i, location, max_location_length) ==
  IF i > Len(locations) THEN location
  ELSE IF /\ Find(request_uri, locations[i].path, 0) = 0
          /\ Len(locations[i].path) > max_location_length
    THEN getLocationFrom(request_uri, locations, i + 1, i,
                         Len(locations[i].path))
  ELSE getLocationFrom(request_uri, locations, i + 1, location,
                       max_location_length)

getLocation(request_uri, locations) ==
  getLocationFrom(request_uri, locations, 1, 0, 0)

\* HttpUtils::getFilePath
getFilePath(location, request_uri) ==
  LET path == IF location.root # <<>>
                   /\ location.root[Len(location.root)] # "/"
                THEN location.root \o <<"/">>
                ELSE location.root
      end == IF Find(request_uri, <<"?">>, 0) # NPOS
               THEN Find(request_uri, <<"?">>, 0)
               ELSE Len(request_uri)
  IN IF request_uri # <<>> /\ request_uri[1] = "/"
       THEN path \o Substr(request_uri, 1, end - 1)
       ELSE path \o Substr(request_uri, 0, end)

\* the components of a path, the empty ones between two slashes included
RECURSIVE Components(_)
Components(path) ==
  LET slash == Find(path, <<"/">>, 0)
  IN IF slash = NPOS THEN <<path>>
     ELSE <<Substr(path, 0, slash)>> \o Components(SubstrFrom(path, slash + 1))

\* the components of an absolute path once "", "." and ".." are resolved
\* (no symbolic links: what canonicalisation leaves of a path without them)
RECURSIVE Resolved(_, _)
Resolved(components, stack) ==
  IF components = <<>> THEN stack
  ELSE LET c == Head(components)
       IN IF c = <<>> \/ c = <<".">>
            THEN Resolved(Tail(components), stack)
          ELSE IF c = <<".", ".">>
            THEN Resolved(Tail(components),
                          IF stack = <<>> THEN stack
                          ELSE SubSeq(stack, 1, Len(stack) - 1))
          ELSE Resolved(Tail(components), Append(stack, c))

RECURSIVE Joined(_)
Joined(components) ==
  IF components = <<>> THEN <<>>
  ELSE <<"/">> \o Head(components) \o Joined(Tail(components))

\* std::filesystem::weakly_canonical of an absolute path
weakly_canonical(path) ==
  IF Resolved(Components(path), <<>>) = <<>> THEN <<"/">>
  ELSE Joined(Resolved(Components(path), <<>>))

\* HttpUtils::isFilePathSecure
isFilePathSecure(path, root) ==
  Find(weakly_canonical(path), weakly_canonical(root), 0) = 0

\* mutant: an empty list allows nothing
isMethodAllowed_listed_only(location, method) ==
  method \in location.allowed_methods

\* HttpUtils::isMethodAllowed
isMethodAllowed(location, method) ==
  location.allowed_methods = {} \/ method \in location.allowed_methods

\* what processMethod returns and what it ran: the status of the response,
\* the check that decided it, the handler called and the path given to it
Decided(status, by) ==
  [op |-> "processMethod", status |-> status, by |-> by,
   handler |-> "none", file_path |-> <<>>]

Handled(status, handler, file_path) ==
  [op |-> "processMethod", status |-> status, by |-> "handler",
   handler |-> handler, file_path |-> file_path]

\* processMethod once the location is known to serve the request itself:
\* path resolution and safety, method gate, CGI dispatch, method execution;
\* env carries what the filesystem answers: whether the path is a CGI
\* script and the status the handler that ran came back with
resolveAndRun(request, location, env) ==
  IF ~isFilePathSecure(getFilePath(location, request.target), location.root)
    THEN Decided(NOT_FOUND, "path")
  ELSE IF ~isMethodAllowed(location, request.method)
    THEN Decided(METHOD_NOT_ALLOWED, "method")
  ELSE IF env.is_cgi
    THEN Handled(env.status, "cgi", getFilePath(location, request.target))
  ELSE IF request.method \in {"GET", "POST", "DELETE"}
    THEN Handled(env.status, request.method,
                 getFilePath(location, request.target))
  ELSE Decided(NOT_IMPLEMENTED, "method_code")

\* mutant: the redirect is looked at before the size of the body
processMethod_redirect_first(request, locations, env) ==
  LET location == getLocation(request.target, locations)
  IN IF location = 0 THEN Decided(NOT_FOUND, "location")
     ELSE IF locations[location].redirect_url # <<>>
       THEN Decided(MOVED_PERMANENTLY, "redirect")
     ELSE IF request.body_length >= locations[location].client_max_body_size
       THEN Decided(PAYLOAD_TOO_LARGE, "body_size")
     ELSE resolveAndRun(request, locations[location], env)

\* mutant: a body of exactly client_max_body_size bytes passes
processMethod_strict_limit(request, locations, env) ==
  LET location == getLocation(request.target, locations)
  IN IF location = 0 THEN Decided(NOT_FOUND, "location")
     ELSE IF request.body_length > locations[location].client_max_body_size
       THEN Decided(PAYLOAD_TOO_LARGE, "body_size")
     ELSE IF locations[location].redirect_url # <<>>
       THEN Decided(MOVED_PERMANENTLY, "redirect")
     ELSE resolveAndRun(request, locations[location], env)

\* HttpMethodHandler::processMethod
processMethod(request, locations, env) ==
  LET location == getLocation(request.target, locations)
  IN IF location = 0 THEN Decided(NOT_FOUND, "location")
     ELSE IF request.body_length >= locations[location].client_max_body_size
       THEN Decided(PAYLOAD_TOO_LARGE, "body_size")
     ELSE IF locations[location].redirect_url # <<>>
       THEN Decided(MOVED_PERMANENTLY, "redirect")
     ELSE resolveAndRun(request, locations[location], env)

\* the HttpResponse processMethod returns: built with setErrorResponse by
\* each check that stops the request, by the handler otherwise
Returned(request, locations, env) ==
  LET by == processMethod(request, locations, env).by
      location == locations[getLocation(request.target, locations)]
  IN CASE by = "location" ->
            setErrorResponse(HttpResponse, NOT_FOUND,
                             <<"Requested location not found: ">>
                             \o request.target)
       [] by = "body_size" ->
            setErrorResponse(HttpResponse, PAYLOAD_TOO_LARGE,
                             <<"Request body size exceeds limit">>)
       [] by = "redirect" ->
            HttpResponse_insertHeader(
              setErrorResponse(HttpResponse, MOVED_PERMANENTLY,
                               <<"Redirecting to ">> \o location.redirect_url),
              sLocation, location.redirect_url)
       [] by = "path" ->
            setErrorResponse(HttpResponse, NOT_FOUND,
                             <<"Page/file doesn't exist">>)
       [] by = "method" ->
            setErrorResponse(HttpResponse, METHOD_NOT_ALLOWED,
                             <<"Method ", request.method, " not allowed">>)
       [] by = "method_code" ->
            setErrorResponse(HttpResponse, NOT_IMPLEMENTED,
                             <<"Method ", request.method, " not implemented">>)
       [] OTHER ->
            IF env.flagged
              THEN setErrorResponse(HttpResponse, env.status, <<"<reason>">>)
              ELSE setStatusCode(
                     HttpResponse_setBody(HttpResponse, <<"<content>">>,
                                          sTextHtml),
                     env.status)

\* ------------------------------------------------------------------------
\* Method handler harness: one request against one ServerBlock
\* ------------------------------------------------------------------------
MaxLocations == 3
MaxBodyLength == 2

\* the mandatory "/" location and others a configuration may hold
LocRoot ==
  [path |-> <<"/">>, root |-> <<"/","w">>, client_max_body_size |-> 2,
   redirect_url |-> <<>>, allowed_methods |-> {}]
LocRedirect ==
  [path |-> <<"/","a">>, root |-> <<"/","w">>, client_max_body_size |-> 1,
   redirect_url |-> <<"/","r">>, allowed_methods |-> {"GET"}]
LocGetOnly ==
  [path |-> <<"/","a">>, root |-> <<"/","v">>, client_max_body_size |-> 2,
   redirect_url |-> <<>>, allowed_methods |-> {"GET"}]
LocDeep ==
  [path |-> <<"/","a","/","b">>, root |-> <<"/","w","/">>,
   client_max_body_size |-> 1, redirect_url |-> <<>>,
   allowed_methods |-> {"GET", "POST", "DELETE"}]
LocEmptyPath ==
  [path |-> <<>>, root |-> <<"/","w">>, client_max_body_size |-> 2,
   redirect_url |-> <<>>, allowed_methods |-> {}]
LocationPool == {LocRoot, LocRedirect, LocGetOnly, LocDeep, LocEmptyPath}

\* location lists the configuration parser accepts: "/" is among them
ServerLocations ==
  {locs \in UNION {[1..n -> LocationPool] : n \in 1..MaxLocations} :
     /\ \E i \in DOMAIN locs : locs[i] = LocRoot
     /\ \A i, j \in DOMAIN locs : locs[i] = locs[j] => i = j}

\* request targets the parser accepts
MethodTargets ==
  {t \in {<<"/">>, <<"/","a">>, <<"/","a","/","b">>, <<"/","a","b">>,
          <<"/","a","?","q">>, <<"/","a","/",".",".","/","a">>,
          <<"/",".",".","/","w","x","/","s">>,
          <<"/","a","/",".",".","/",".",".","/","v","x">>,
          <<"h","t","t","p",":","/","/","x","/","a">>} :
     validateRequestTarget(t) = ""}

MethodNames == {"GET", "POST", "DELETE", "PUT"}
HandlerStatuses == {OK, NOT_FOUND}

\* what the handler that runs comes back with: the file handlers flag every
\* failure with setErrorResponse; CgiHandler flags its own failures and
\* takes the status of a script's Status header with setStatusCode
HandlerEnvs ==
  {e \in [is_cgi : BOOLEAN, status : HandlerStatuses, flagged : BOOLEAN] :
     /\ e.flagged => e.status >= BAD_REQUEST
     /\ ~e.is_cgi => (e.flagged <=> e.status >= BAD_REQUEST)}

\* the Connection that received the request: HTTP/1.1, no Connection header
MethodConnection ==
  [Connection(4, 3, 0) EXCEPT !.request.http_version = sHTTP11]

InitMethod ==
  /\ ParserIdle /\ ResponseIdle /\ ServerIdle /\ CgiIdle
  /\ m_in \in [locations : ServerLocations, target : MethodTargets,
               method : MethodNames, body_length : 0..MaxBodyLength]
  /\ m_out = [op |-> "none"]

MethodGetLocation ==
  /\ UNCHANGED <<parserVars, responseVars, serverVars, cgiVars, m_in>>
  /\ m_out.op = "none"
  /\ m_out' = [op |-> "getLocation",
               location |-> getLocation(m_in.target, m_in.locations)]

MethodProcessMethod ==
  /\ UNCHANGED <<parserVars, responseVars, serverVars, cgiVars, m_in>>
  /\ m_out.op = "none"
  /\ \E env \in HandlerEnvs :
       m_out' = processMethod(m_in, m_in.locations, env)

\* Connection::processRequest on a complete request: processMethod, then
\* the error page or the Connection header, then the bytes of the response
MethodProcessRequest ==
  /\ UNCHANGED <<parserVars, responseVars, serverVars, cgiVars, m_in>>
  /\ m_out.op = "none"
  /\ \E env \in HandlerEnvs, page \in ErrorPages :
       m_out' =
         [op |-> "processRequest",
          by |-> processMethod(m_in, m_in.locations, env).by,
          response |-> Returned(m_in, m_in.locations, env),
          page |-> page,
          bytes |-> buildResponse(MethodConnection,
                                  Returned(m_in, m_in.locations, env),
                                  page).write_buffer]

NextMethod == MethodGetLocation \/ MethodProcessMethod \/ MethodProcessRequest

SpecMethod == InitMethod /\ [][NextMethod]_vars

\* ------------------------------------------------------------------------
\* Properties of the method handler
\* ------------------------------------------------------------------------
\* the location processMethod selected, and the checks on it in the order
\* the specification lists them
Selected == m_in.locations[getLocation(m_in.target, m_in.locations)]
NoLocation == getLocation(m_in.target, m_in.locations) = 0
TooLarge == m_in.body_length >= Selected.client_max_body_size
Redirects == Selected.redirect_url # <<>>
Unsafe ==
  ~isFilePathSecure(getFilePath(Selected, m_in.target), Selected.root)
Refused == ~isMethodAllowed(Selected, m_in.method)

\* C18: the response of processMethod is decided by the first check that
\* fails or fires in the order location, body size, redirect, path safety,
\* method gate, CGI dispatch, method execution, whatever the later checks
\* would have said.
C18_ChecksInOrder ==
  m_out.op = "processMethod" =>
    IF NoLocation THEN m_out.status = NOT_FOUND /\ m_out.by = "location"
    ELSE IF TooLarge
      THEN m_out.status = PAYLOAD_TOO_LARGE /\ m_out.handler = "none"
    ELSE IF Redirects
      THEN m_out.status = MOVED_PERMANENTLY /\ m_out.handler = "none"
    ELSE IF Unsafe
      THEN m_out.status = NOT_FOUND /\ m_out.handler = "none"
    ELSE IF Refused
      THEN m_out.status = METHOD_NOT_ALLOWED /\ m_out.handler = "none"
    ELSE \/ m_out.handler = "cgi"
         \/ m_out.handler = m_in.method
         \/ m_out.status = NOT_IMPLEMENTED /\ m_out.handler = "none"

\* an over-size body on a redirect location was answered 413
C18_Witness ==
  /\ m_out.op = "processMethod"
  /\ ~NoLocation /\ TooLarge /\ Redirects
  /\ m_out.status = PAYLOAD_TOO_LARGE

\* the resolved components of path begin with those of root
InsideRoot(path, root) ==
  LET p == Resolved(Components(path), <<>>)
      r == Resolved(Components(root), <<>>)
  IN Len(p) >= Len(r) /\ SubSeq(p, 1, Len(r)) = r

\* C19: every handler processMethod runs is given a path inside the root of
\* the selected location; a target that resolves outside it is answered 404
\* by the path check and no handler runs.
C19_PathSafety ==
  m_out.op = "processMethod" =>
    /\ m_out.handler # "none" => InsideRoot(m_out.file_path, Selected.root)
    /\ (~NoLocation /\ ~TooLarge /\ ~Redirects
         /\ ~InsideRoot(getFilePath(Selected, m_in.target), Selected.root)) =>
         (m_out.status = NOT_FOUND /\ m_out.handler = "none")

\* the locations whose path is a prefix of the target
PrefixLocations ==
  {i \in DOMAIN m_in.locations :
     /\ Len(m_in.locations[i].path) <= Len(m_in.target)
     /\ SubSeq(m_in.target, 1, Len(m_in.locations[i].path))
          = m_in.locations[i].path}

\* the first of the longest of them
LongestPrefixLocation ==
  MinOf({i \in PrefixLocations :
           \A j \in PrefixLocations :
             Len(m_in.locations[j].path) <= Len(m_in.locations[i].path)})

\* C20: getLocation returns the first location of maximal path length among
\* those whose path is a prefix of the target, and none only when no
\* location path is a prefix of the target.
C20_LongestPrefix ==
  m_out.op = "getLocation" =>
    IF PrefixLocations = {} THEN m_out.location = 0
    ELSE m_out.location = LongestPrefixLocation

\* the same for the targets some non-empty location path is a prefix of
C20_ExceptEmptyPath ==
  (\E i \in PrefixLocations : m_in.locations[i].path # <<>>) =>
    C20_LongestPrefix

\* C21: whenever the ServerBlock holds a "/" location, location selection
\* finds a location for every target the parser accepts, and processMethod
\* never answers 404 for lack of one.
C21_LocationAlwaysFound ==
  (\E i \in DOMAIN m_in.locations : m_in.locations[i].path = <<"/">>) =>
    /\ m_out.op = "getLocation" => m_out.location # 0
    /\ m_out.op = "processMethod" => m_out.by # "location"

\* the method is missing from the non-empty list of the selected location
NotListed ==
  /\ ~NoLocation
  /\ Selected.allowed_methods # {}
  /\ m_in.method \notin Selected.allowed_methods

\* a location with an empty list never produces 405
EmptyListNever405 ==
  (m_out.op = "processMethod" /\ ~NoLocation
     /\ Selected.allowed_methods = {}) => m_out.status # METHOD_NOT_ALLOWED

ResponseBodyOf(bytes) == SubstrFrom(bytes, Find(bytes, CRLF \o CRLF, 0) + 4)
ResponseHeadOf(bytes) == Substr(bytes, 0, Find(bytes, CRLF \o CRLF, 0) + 2)

\* C24: a request that matches a location with a non-empty redirect_url and
\* passes the body-size gate is answered 301, and the bytes sent carry a
\* Location header equal to redirect_url and the body "Redirecting to
\* <redirect_url>".
C24_RedirectAnswer ==
  (m_out.op = "processRequest" /\ ~NoLocation /\ ~TooLarge /\ Redirects) =>
    /\ StatusOf(m_out.bytes) = MOVED_PERMANENTLY
    /\ HasHeaderLine(ResponseHeadOf(m_out.bytes), sLocation,
                     Selected.redirect_url)
    /\ ResponseBodyOf(m_out.bytes)
         = <<"Redirecting to ">> \o Selected.redirect_url

\* the body refers to the picture of the status at http.cat
RefersToCat(body, status) ==
  Find(body, <<")<img src='https://http.cat/">> \o to_string(status), 0)
    # NPOS

\* C25: the body of a response is replaced by an error page exactly when
\* its final status is 400 or more, whatever produced the status: by the
\* configured page for the status or, without one, by the built-in page
\* that refers to https://http.cat/<status>; a response whose status is
\* below 400 keeps the body its handler produced.
C25_ErrorPageSubstitution ==
  m_out.op = "processRequest" =>
    IF StatusOf(m_out.bytes) >= BAD_REQUEST
      THEN IF m_out.page.found
             THEN ResponseBodyOf(m_out.bytes) = m_out.page.body
             ELSE RefersToCat(ResponseBodyOf(m_out.bytes),
                              StatusOf(m_out.bytes))
      ELSE ResponseBodyOf(m_out.bytes) = m_out.response.body

\* ------------------------------------------------------------------------
\* Webserv: listening sockets per port and virtual-host resolution
\* ------------------------------------------------------------------------
NoSockets == [port_to_servfd |-> << >>, servfd_to_config |-> << >>]

\* Webserv::openServerSockets: the loop over _config.servers from index i;
\* socket() hands out the lowest free descriptor, 3 being the first
RECURSIVE openServerSocketsFrom(_, _, _)
openServerSocketsFrom(servers, i, maps) ==
  IF i > Len(servers) THEN maps
  ELSE IF servers[i].port \notin DOMAIN maps.port_to_servfd
    THEN LET server_socket_fd == 3 + Cardinality(DOMAIN maps.port_to_servfd)
         IN openServerSocketsFrom(servers, i + 1,
              [port_to_servfd |->
                 (servers[i].port :> server_socket_fd)
                   @@ maps.port_to_servfd,
               servfd_to_config |->
                 (server_socket_fd :> <<i>>) @@ maps.servfd_to_config])
  ELSE LET tmp_socket == maps.port_to_servfd[servers[i].port]
       IN openServerSocketsFrom(servers, i + 1,
            [maps EXCEPT !.servfd_to_config[tmp_socket] = Append(@, i)])

openServerSockets(servers) == openServerSocketsFrom(servers, 1, NoSockets)

\* std::string::find_last_of(":")
find_last_of_colon(s) ==
  IF \A i \in 1..Len(s) : s[i] # ":" THEN NPOS
  ELSE (CHOOSE i \in 1..Len(s) :
          s[i] = ":" /\ \A j \in (i + 1)..Len(s) : s[j] # ":") - 1

InNames(name, server_names) ==
  \E k \in 1..Len(server_names) : server_names[k] = name

\* the loop of getServerConfigs over the servers of the socket; _serv is
\* the first server matched by its host so far (0: none)
RECURSIVE getServerConfigsFrom(_, _, _, _, _)
getServerConfigsFrom(config, servers, k, host_, serv_) ==
  IF k > Len(servers)
    THEN IF serv_ # 0 THEN serv_ ELSE servers[1]
  ELSE IF InNames(host_, config[servers[k]].server_names) THEN servers[k]
  ELSE IF serv_ = 0 /\ config[servers[k]].host = host_
    THEN getServerConfigsFrom(config, servers, k + 1, host_, servers[k])
  ELSE getServerConfigsFrom(config, servers, k + 1, host_, serv_)

\* mutant: the first server matched by name or by host is returned
RECURSIVE getServerConfigsFrom_either(_, _, _, _, _)
getServerConfigsFrom_either(config, servers, k, host_, serv_) ==
  IF k > Len(servers) THEN servers[1]
  ELSE IF \/ InNames(host_, config[servers[k]].server_names)
          \/ config[servers[k]].host = host_
    THEN servers[k]
  ELSE getServerConfigsFrom_either(config, servers, k + 1, host_, serv_)

getServerConfigs_first_match(config, maps, server_socket_fd, host) ==
  IF \/ server_socket_fd \notin DOMAIN maps.servfd_to_config
     \/ maps.servfd_to_config[server_socket_fd] = <<>>
    THEN 0
  ELSE getServerConfigsFrom_either(
         config, maps.servfd_to_config[server_socket_fd], 1,
         IF find_last_of_colon(host) = NPOS THEN host
         ELSE Substr(host, 0, find_last_of_colon(host)),
         0)

\* Webserv::getServerConfigs: the index in config of the server returned,
\* 0 when it throws for a socket without servers
getServerConfigs(config, maps, server_socket_fd, host) ==
  IF \/ server_socket_fd \notin DOMAIN maps.servfd_to_config
     \/ maps.servfd_to_config[server_socket_fd] = <<>>
    THEN 0
  ELSE getServerConfigsFrom(
         config, maps.servfd_to_config[server_socket_fd], 1,
         IF find_last_of_colon(host) = NPOS THEN host
         ELSE Substr(host, 0, find_last_of_colon(host)),
         0)

\* ------------------------------------------------------------------------
\* Virtual-host harness: one Host value against one configuration
\* ------------------------------------------------------------------------
MaxServers == 3

ServerPool ==
  {[host |-> <<"0">>, port |-> 80, server_names |-> <<<<"a">>>>],
   [host |-> <<"b">>, port |-> 80, server_names |-> <<>>],
   [host |-> <<"0">>, port |-> 80, server_names |-> <<<<"c">>, <<"b">>>>],
   [host |-> <<"b">>, port |-> 81, server_names |-> <<<<"a">>>>],
   [host |-> <<"a">>, port |-> 81, server_names |-> <<<<"d">>>>]}

\* configurations the parser accepts: no two servers share a port and a name
ServerConfigs ==
  {c \in UNION {[1..n -> ServerPool] : n \in 1..MaxServers} :
     \A i, j \in DOMAIN c :
       (i # j /\ c[i].port = c[j].port) =>
         /\ c[i] # c[j]
         /\ \A k \in 1..Len(c[i].server_names) :
              ~InNames(c[i].server_names[k], c[j].server_names)}

HostValues ==
  {<<>>, <<"a">>, <<"b">>, <<"e">>, <<"a",":","8","0">>, <<"b",":">>,
   <<"c",":","8","0">>, <<"a",":","b",":","8","0">>, <<":","8","0">>}

InitVhost ==
  /\ ParserIdle /\ ResponseIdle /\ ServerIdle /\ CgiIdle
  /\ \E config \in ServerConfigs, host \in HostValues :
       \E fd \in DOMAIN openServerSockets(config).servfd_to_config :
         m_in = [config |-> config, maps |-> openServerSockets(config),
                 server_socket_fd |-> fd, host |-> host]
  /\ m_out = [op |-> "none"]

VhostGetServerConfigs ==
  /\ UNCHANGED <<parserVars, responseVars, serverVars, cgiVars, m_in>>
  /\ m_out.op = "none"
  /\ m_out' = [op |-> "getServerConfigs",
               server |-> getServerConfigs(m_in.config, m_in.maps,
                                           m_in.server_socket_fd, m_in.host)]

NextVhost == VhostGetServerConfigs

SpecVhost == InitVhost /\ [][NextVhost]_vars

\* ------------------------------------------------------------------------
\* Properties of virtual-host resolution
\* ------------------------------------------------------------------------
\* the Host value without its last ":" and what follows it
HostName ==
  IF \E i \in 1..Len(m_in.host) : m_in.host[i] = ":"
    THEN SubSeq(m_in.host, 1,
                CHOOSE i \in 0..Len(m_in.host) :
                  /\ m_in.host[i + 1] = ":"
                  /\ \A j \in (i + 2)..Len(m_in.host) : m_in.host[j] # ":")
    ELSE m_in.host

\* the servers bound to the socket: those of its port
BoundServers ==
  {i \in DOMAIN m_in.config :
     m_in.maps.port_to_servfd[m_in.config[i].port] = m_in.server_socket_fd}
NamedServers ==
  {i \in BoundServers : InNames(HostName, m_in.config[i].server_names)}
HostServers == {i \in BoundServers : m_in.config[i].host = HostName}

\* C26: getServerConfigs strips the ":port" suffix of the Host value and
\* returns, among the servers bound to the socket in configuration order,
\* the first whose server_names contains the name, else the first whose
\* host equals the name, else the first server of the list.
C26_VirtualHost ==
  m_out.op = "getServerConfigs" =>
    m_out.server =
      IF NamedServers # {} THEN MinOf(NamedServers)
      ELSE IF HostServers # {} THEN MinOf(HostServers)
      ELSE MinOf(BoundServers)

\* a server named by the Host value was preferred to an earlier server
\* whose host equals the name
C26_Witness ==
  /\ m_out.op = "getServerConfigs"
  /\ NamedServers # {} /\ HostServers # {}
  /\ MinOf(HostServers) < MinOf(NamedServers)
  /\ m_out.server = MinOf(NamedServers)
  /\ HostName # m_in.host

\* ------------------------------------------------------------------------
\* Properties of response serialization
\* ------------------------------------------------------------------------
\* an HTTP/1.1 response as a client reads it: the lines of the head, the
\* status of the first, a (lowercased name, value) pair for each of the
\* others, and the body the Content-Length header frames
RECURSIVE HeadLines(_)
HeadLines(head) ==
  IF Find(head, CRLF, 0) = NPOS THEN <<head>>
  ELSE <<Substr(head, 0, Find(head, CRLF, 0))>>
       \o HeadLines(SubstrFrom(head, Find(head, CRLF, 0) + 2))

RECURSIVE WithoutLeadingSpace(_)
WithoutLeadingSpace(value) ==
  IF value # <<>> /\ Head(value) \in {SP, HT}
    THEN WithoutLeadingSpace(Tail(value))
    ELSE value

FieldOf(line) ==
  <<toLowerCase(Substr(line, 0, Find(line, <<":">>, 0))),
    WithoutLeadingSpace(SubstrFrom(line, Find(line, <<":">>, 0) + 1))>>

ReadResponse(bytes) ==
  LET sep == Find(bytes, CRLF \o CRLF, 0)
      lines == HeadLines(Substr(bytes, 0, sep))
      fields == {FieldOf(lines[i]) : i \in 2..Len(lines)}
      lengths == {f \in fields :
                    f[1] = toLowerCase(sContentLength)
                    /\ f[2] # <<>> /\ SpanLen(f[2], DigitChars) = Len(f[2])}
      rest == SubstrFrom(bytes, sep + 4)
  IN IF \/ sep = NPOS
        \/ Substr(lines[1], 0, Len(sHTTP11) + 1) # sHTTP11 \o <<SP>>
        \/ StatusOf(lines[1]) = 0
        \/ Substr(lines[1], Len(sHTTP11) + 4, 1) # <<SP>>
        \/ \E i \in 2..Len(lines) : Find(lines[i], <<":">>, 0) < 1
        \/ Cardinality(lengths) # 1
       THEN [ok |-> FALSE]
     ELSE LET length == CHOOSE f \in lengths : TRUE
          IN IF DigitsValue(length[2], 10, 0) # Len(rest) THEN [ok |-> FALSE]
             ELSE [ok |-> TRUE, status_code |-> StatusOf(lines[1]),
                   headers |-> fields, body |-> rest]

\* the headers convertToString writes for every response
MandatoryNames ==
  {toLowerCase(sServer), toLowerCase(sDate), toLowerCase(sContentLength),
   toLowerCase(sContentType)}

\* C27: convertToString emits a Content-Length header whose decimal value is
\* the length of the body, and reading the serialized bytes as an HTTP/1.1
\* response gives back the status code, the headers (in any order) and the
\* body of the response.
C27_SerializationRoundTrip ==
  rs_last.op = "convertToString" =>
    /\ ReadResponse(rs_last.bytes).ok
    /\ <<toLowerCase(sContentLength), to_string(Len(rs_resp.body))>>
         \in ReadResponse(rs_last.bytes).headers
    /\ ReadResponse(rs_last.bytes).status_code = rs_resp.status_code
    /\ {f \in ReadResponse(rs_last.bytes).headers : f[1] \notin MandatoryNames}
         = {<<k, rs_resp.headers[k]>> : k \in DOMAIN rs_resp.headers}
    /\ ReadResponse(rs_last.bytes).body = rs_resp.body

\* a response with a status set and a body was serialized and read back
C27_Witness ==
  /\ rs_last.op = "convertToString"
  /\ rs_resp.body # <<>> /\ rs_resp.status_code # I_AM_TEAPOD
  /\ ReadResponse(rs_last.bytes).ok
  /\ ReadResponse(rs_last.bytes).body = rs_resp.body

\* ------------------------------------------------------------------------
\* Stream harness: one Request fed a message in pieces, compacted between
\* calls, and fed again once the message has been handled
\* ------------------------------------------------------------------------
MaxTrailing == 2

Run(n) == [i \in 1..n |-> "x"]

\* a chunked message whose first chunk leaves the parsed offset three bytes
\* under the threshold, so that the size line of the second reaches it:
\* head, three hex digits and CRLF, the chunk and CRLF, "1" and CRLF
LongChunk ==
  PARSED_OFFSET_THRESHOLD
    - (Len(ChunkedMessage(<<>>)) - Len(ChunkedBody(<<>>)))
    - Len(<<"f","f","f">> \o CRLF) - Len(CRLF) - Len(<<"1">> \o CRLF)
LongMessage == ChunkedMessage(<<Run(LongChunk), <<"y">>>>)

StreamMessages ==
  {LongMessage, NoBodyMessage(sGET, sHTTP11), NoBodyMessage(sPATCH, sHTTP11),
   NoBodyMessage(sGET, sHTTP20), ContentLengthMessage(<<"a","b">>)}

\* the places where a message may be cut: after its head, inside and after
\* the first chunk, after the size line of the second chunk, after its data
CutPlaces(msg) ==
  IF msg # LongMessage THEN {Len(msg) - 1}
  ELSE LET head == Len(msg) - Len(ChunkedBody(<<Run(LongChunk), <<"y">>>>))
           first == head + Len(ToDigits(LongChunk, 16)) + 2
       IN {head, first, first + 1, first + LongChunk + 2,
           first + LongChunk + 5, first + LongChunk + 8}

\* msg cut at the places of cuts, in ascending order from position from
RECURSIVE PiecesAt(_, _, _)
PiecesAt(msg, from, cuts) ==
  IF cuts = {} THEN <<SubSeq(msg, from + 1, Len(msg))>>
  ELSE <<SubSeq(msg, from + 1, MinOf(cuts))>>
       \o PiecesAt(msg, MinOf(cuts), cuts \ {MinOf(cuts)})

StreamCuts(msg) == {PiecesAt(msg, 0, cuts) : cuts \in SUBSET CutPlaces(msg)}

\* what a caller may hand to parseRequest after the message
AgainData == {<<"x">>, CRLF}

InitStream ==
  /\ ResponseIdle /\ ServerIdle /\ UnitIdle
  /\ p_msg \in StreamMessages
  /\ p_pieces \in StreamCuts(p_msg)
  /\ p_req = HttpRequest
  /\ p_status = "NONE"

\* parseRequest(data) once every piece of the message has been fed
ParserFeedAgain ==
  /\ p_pieces = <<>>
  /\ \E data \in AgainData :
       /\ Len(p_req.buffer) + Len(data) <= MaxTrailing
       /\ p_req' = parseRequest(data, p_req).req
       /\ p_status' = parseRequest(data, p_req).status
  /\ UNCHANGED <<p_msg, p_pieces, responseVars, serverVars, unitVars>>

\* eraseParsedBuffer() between two calls
ParserEraseParsedBuffer ==
  /\ p_req.parsed_buffer_offset > 0
  /\ p_req' = eraseParsedBuffer(p_req)
  /\ UNCHANGED <<p_msg, p_pieces, p_status, responseVars, serverVars,
                 unitVars>>

NextStream == ParserFeed \/ ParserFeedAgain \/ ParserEraseParsedBuffer

SpecStream == InitStream /\ [][NextStream]_vars

\* ------------------------------------------------------------------------
\* Properties of the Request buffer and of the sticky states
\* ------------------------------------------------------------------------
IsSuffix(a, b) ==
  Len(a) <= Len(b) /\ SubSeq(b, Len(b) - Len(a) + 1, Len(b)) = a

UnfinishedStates ==
  {"REQUEST_LINE", "HEADERS", "BODY", "CHUNKED_BODY_SIZE",
   "CHUNKED_BODY_DATA", "CHUNKED_BODY_TRAILER"}

\* the offset is inside the buffer, and each call that can compact the
\* buffer drops the consumed prefix only
OffsetInsideBuffer ==
  /\ p_req.parsed_buffer_offset <= Len(p_req.buffer)
  /\ getUnparsedBuffer(eraseParsedBuffer(p_req)) = getUnparsedBuffer(p_req)
  /\ Len(eraseParsedBuffer(p_req).buffer)
       = Len(p_req.buffer) - p_req.parsed_buffer_offset
  /\ \A data \in AgainData :
       getUnparsedBuffer(appendBuffer(p_req, data))
         = getUnparsedBuffer(p_req) \o data
  /\ \A state \in UnfinishedStates :
       getUnparsedBuffer(setParsingState(p_req, state))
         = getUnparsedBuffer(p_req)

\* a step takes unparsed bytes from the front of the view only
ViewKept ==
  \/ p_req'.state = "COMPLETE"
  \/ \E data \in AgainData \cup {<<>>, Head(p_pieces \o <<<<>>>>)} :
       IsSuffix(getUnparsedBuffer(p_req'), getUnparsedBuffer(p_req) \o data)

\* C28: in every state reached through appendBuffer, commitParsedBytes,
\* eraseParsedBuffer, setParsingState and the steps of the parser the parsed
\* offset is at most the length of the buffer, and each compaction removes
\* consumed bytes only and leaves the unparsed view as it was.
C28_BufferDiscipline == []OffsetInsideBuffer /\ [][ViewKept]_vars

\* more than a threshold of bytes has been consumed into the body of a
\* request still being parsed, and the buffer no longer holds them
C28_Witness ==
  /\ p_req.state \in UnfinishedStates /\ ~p_req.is_error
  /\ p_req.body_length + p_req.parsed_buffer_offset
       >= PARSED_OFFSET_THRESHOLD
  /\ Len(p_req.buffer) < PARSED_OFFSET_THRESHOLD

\* C29: once the error flag of a Request is set or its state is COMPLETE, a
\* further parseRequest call changes neither its state, its error flag, its
\* status code nor its message, and the call reports ERROR for an errored
\* Request and DONE for a completed one.
C29_Sticky ==
  /\ (p_req.is_error \/ p_req.state = "COMPLETE") =>
       \A data \in AgainData :
         /\ parseRequest(data, p_req).req.state = p_req.state
         /\ parseRequest(data, p_req).req.is_error = p_req.is_error
         /\ parseRequest(data, p_req).req.status_code = p_req.status_code
         /\ parseRequest(data, p_req).req.err_message = p_req.err_message
  /\ p_req.is_error => p_status = "ERROR"
  /\ (p_req.state = "COMPLETE" /\ ~p_req.is_error) => p_status = "DONE"

\* the part that holds: a Request that completed without error stays as it
\* is and every further call reports DONE
C29_CompletedStaysDone ==
  (p_req.state = "COMPLETE" /\ ~p_req.is_error) =>
    /\ p_status = "DONE"
    /\ \A data \in AgainData :
         /\ parseRequest(data, p_req).status = "DONE"
         /\ parseRequest(data, p_req).req.state = "COMPLETE"
         /\ ~parseRequest(data, p_req).req.is_error

\* ------------------------------------------------------------------------
\* ConfigParser: the directives of a server block and of a location block
\* ------------------------------------------------------------------------
isValidDirective(directive) ==
  directive \in
    {"http", "server", "location", "include", "worker_processes",
     "worker_connections", "sendfile", "listen", "port", "host",
     "server_name", "root", "index", "error_page", "client_max_body_size",
     "autoindex", "allow_methods", "cgi_pass", "return", "cgi_path",
     "cgi_ext"}

isValidInServerContext(directive) ==
  directive \in
    {"listen", "server_name", "host", "root", "index", "error_page",
     "client_max_body_size", "cgi_path", "port"}

isValidInLocationContext(directive) ==
  directive \in
    {"root", "index", "autoindex", "allow_methods", "methods", "return",
     "cgi_path", "cgi_ext", "error_page", "client_max_body_size"}

\* std::stoi on a token: optional sign, then the longest run of digits;
\* throws without digits or when the value leaves the modelled width
stoi(str) ==
  LET signed == str # <<>> /\ Head(str) \in {"+", "-"}
      digits == IF signed THEN Tail(str) ELSE str
      n == SpanLen(digits, DigitChars)
      v == DigitsValue(SubSeq(digits, 1, n), 10, 0)
  IN IF n = 0 \/ v = -1 THEN [ok |-> FALSE, value |-> 0]
     ELSE [ok |-> TRUE, value |-> IF signed /\ Head(str) = "-" THEN 0 - v
                                  ELSE v]

\* validatePort: throws outside 1..65535
validatePort(port) == port >= 1 /\ port <= 65535

\* parseBodySize: whether it returns (TRUE) or throws (FALSE)
parseBodySize(value) ==
  IF value = <<>> THEN FALSE
  ELSE IF value[Len(value)] \in {"K", "k", "M", "m"}
    THEN stoull(SubSeq(value, 1, Len(value) - 1), 10).ok
  ELSE stoull(value, 10).ok

\* what parsing one directive does: the warning written and the error
\* thrown ("none" when the directive is accepted)
DirectiveOutcome(warned, thrown) ==
  [op |-> "parseDirective", warned |-> warned, thrown |-> thrown]

\* getDirectiveValues and the stores that follow it, common to both
\* contexts: the values must end with ";", and port, client_max_body_size
\* and error_page check their first value
storeDirective(keyword, values, semicolon, warned) ==
  IF ~semicolon THEN DirectiveOutcome(warned, "semicolon")
  ELSE IF keyword \in {"listen", "port"} /\ values # <<>>
    THEN IF stoi(values[1]).ok /\ validatePort(stoi(values[1]).value)
           THEN DirectiveOutcome(warned, "none")
           ELSE DirectiveOutcome(warned, "port")
  ELSE IF keyword = "client_max_body_size" /\ values # <<>>
    THEN IF parseBodySize(values[1]) THEN DirectiveOutcome(warned, "none")
         ELSE DirectiveOutcome(warned, "client_max_body_size")
  ELSE IF keyword = "error_page" /\ Len(values) >= 2
    THEN IF stoi(values[1]).ok THEN DirectiveOutcome(warned, "none")
         ELSE DirectiveOutcome(warned, "error_page")
  ELSE DirectiveOutcome(warned, "none")

parseServerDirective(keyword, values, semicolon) ==
  IF ~isValidInServerContext(keyword)
    THEN DirectiveOutcome(~isValidDirective(keyword), "context")
    ELSE storeDirective(keyword, values, semicolon,
                        ~isValidDirective(keyword))

parseLocationDirective(keyword, values, semicolon) ==
  IF ~isValidInLocationContext(keyword)
    THEN DirectiveOutcome(~isValidDirective(keyword), "context")
    ELSE storeDirective(keyword, values, semicolon,
                        ~isValidDirective(keyword))

\* ------------------------------------------------------------------------
\* Directive harness: one directive in one context
\* ------------------------------------------------------------------------
\* the names the parser knows, and two it does not
DirectiveNames ==
  {"http", "server", "include", "worker_processes", "worker_connections",
   "sendfile", "listen", "port", "host", "server_name", "root", "index",
   "error_page", "client_max_body_size", "autoindex", "allow_methods",
   "methods", "cgi_pass", "return", "cgi_path", "cgi_ext", "gzip",
   "keepalive_timeout"}

DirectiveValues ==
  {<<>>, <<<<"8","0">>>>, <<<<"0">>>>, <<<<"o","n">>>>, <<<<"1","k">>>>,
   <<<<"4","0","4">>, <<"/","e">>>>, <<<<".","p","y">>>>}

InitDirective ==
  /\ ParserIdle /\ ResponseIdle /\ ServerIdle /\ CgiIdle
  /\ m_in \in [context : {"server", "location"}, keyword : DirectiveNames,
               values : DirectiveValues, semicolon : BOOLEAN]
  /\ m_out = [op |-> "none"]

DirectiveInServer ==
  /\ UNCHANGED <<parserVars, responseVars, serverVars, cgiVars, m_in>>
  /\ m_out.op = "none" /\ m_in.context = "server"
  /\ m_out' = parseServerDirective(m_in.keyword, m_in.values,
                                   m_in.semicolon)

DirectiveInLocation ==
  /\ UNCHANGED <<parserVars, responseVars, serverVars, cgiVars, m_in>>
  /\ m_out.op = "none" /\ m_in.context = "location"
  /\ m_out' = parseLocationDirective(m_in.keyword, m_in.values,
                                     m_in.semicolon)

NextDirective == DirectiveInServer \/ DirectiveInLocation

SpecDirective == InitDirective /\ [][NextDirective]_vars

\* ------------------------------------------------------------------------
\* Properties of the configuration directives
\* ------------------------------------------------------------------------
\* the directives the specification lists for each context
ListedDirectives ==
  [server |-> {"listen", "port", "host", "server_name", "root", "index",
               "client_max_body_size", "error_page", "cgi_path", "cgi_ext"},
   location |-> {"root", "index", "autoindex", "allow_methods", "methods",
                 "return", "client_max_body_size", "error_page", "cgi_path",
                 "cgi_ext"}]

\* the directive is listed for no context and is no block or global keyword
NotRecognized ==
  m_in.keyword \notin
    ListedDirectives.server \cup ListedDirectives.location
    \cup {"http", "server", "include", "worker_processes",
          "worker_connections", "sendfile", "cgi_pass"}

\* C30: no directive fails the load because of its name: a directive the
\* parser does not recognize is answered by a warning only, and a directive
\* listed for the context it stands in is never refused for its context.
C30_NamesNeverFatal ==
  m_out.op = "parseDirective" =>
    /\ NotRecognized => (m_out.warned /\ m_out.thrown # "context")
    /\ m_in.keyword \in ListedDirectives[m_in.context] =>
         m_out.thrown # "context"

\* the part that holds: in a location block every listed directive is
\* accepted for its name, and methods, which the parser does not know, only
\* draws a warning
C30_LocationDirectives ==
  (m_out.op = "parseDirective" /\ m_in.context = "location"
     /\ m_in.keyword \in ListedDirectives.location) =>
    /\ m_out.thrown # "context"
    /\ m_out.warned <=> m_in.keyword = "methods"

\* ------------------------------------------------------------------------
\* Properties of the chunked body states
\* ------------------------------------------------------------------------
\* the Request as parseRequestChunkedBodyData sees it in the next call
ChunkDataRequest == appendBuffer(p_req, Head(p_pieces))

\* C31: a call that finds the Request in CHUNKED_BODY_DATA returns
\* WAIT_FOR_DATA, and sets no error, while fewer than expected-chunk-length
\* + 2 bytes are unparsed, and when exactly expected-chunk-length bytes are
\* followed by CRLF the chunk is accepted: those bytes are appended to the
\* body, whether or not they contain CRLF themselves.
C31_ChunkDataByLength ==
  [][(p_pieces # <<>> /\ p_req.state = "CHUNKED_BODY_DATA") =>
       LET r == ChunkDataRequest
           view == getUnparsedBuffer(r)
           n == r.expected_chunk_length
       IN /\ Len(view) < n + 2 =>
               /\ p_status' = "WAIT_FOR_DATA"
               /\ ~p_req'.is_error
          /\ (Len(view) >= n + 2 /\ Substr(view, n, 2) = CRLF) =>
               /\ parseRequestChunkedBodyData(r).status = "CONTINUE"
               /\ parseRequestChunkedBodyData(r).req.body
                    = r.body \o Substr(view, 0, n)]_vars

\* the part that holds: chunk data without CRLF inside
C31_ExceptCrlfChunk ==
  [][(p_pieces # <<>> /\ p_req.state = "CHUNKED_BODY_DATA"
      /\ ~HasCrlfInChunk) =>
       LET r == ChunkDataRequest
           view == getUnparsedBuffer(r)
           n == r.expected_chunk_length
       IN /\ Len(view) < n + 2 =>
               /\ p_status' = "WAIT_FOR_DATA"
               /\ ~p_req'.is_error
          /\ (Len(view) >= n + 2 /\ Substr(view, n, 2) = CRLF) =>
               /\ parseRequestChunkedBodyData(r).status = "CONTINUE"
               /\ parseRequestChunkedBodyData(r).req.body
                    = r.body \o Substr(view, 0, n)]_vars

\* ------------------------------------------------------------------------
\* Message harness: a fresh HttpRequest fed well-formed and malformed
\* messages, whole, in two pieces and byte by byte
\* ------------------------------------------------------------------------
sX == <<"x">>
sGzip == <<"g","z","i","p">>
sChunkedCapital == <<"C","h","u","n","k","e","d">>
sHTTX11 == <<"H","T","T","X","/","1",".","1">>

\* request lines: accepted, and failing one or more of the checks
MessageLines ==
  {RequestLine(sPOST, <<"/">>, sHTTP11),
   RequestLine(sPATCH, <<"/">>, sHTTP11),
   RequestLine(sGET, sX, sHTTP11),
   RequestLine(sGET, <<"/">>, sHTTP20),
   RequestLine(sGET, <<"/">>, sHTTX11),
   RequestLine(sPATCH, sX, sHTTP11),
   RequestLine(sPATCH, <<"/">>, sHTTP20),
   RequestLine(sGET, sX, sHTTP20),
   RequestLine(sGET, sX, sHTTX11),
   sGET \o <<SP, "/">> \o CRLF,
   sPATCH \o <<SP, "/">> \o CRLF,
   sGET \o CRLF,
   CRLF}

HostLine == HeaderLine(sHost, sX)

\* header blocks: with and without Host, Content-Length and
\* Transfer-Encoding, and one with a malformed line
MessageHeaders ==
  {HostLine,
   HeaderLine(sConnection, sClose),
   HostLine \o HeaderLine(sContentLength, <<"2">>),
   HostLine \o HeaderLine(sContentLength, <<"a","b","c">>),
   HostLine \o HeaderLine(sContentLength, <<"2","x">>),
   HeaderLine(sContentLength, <<"2">>),
   HostLine \o HeaderLine(sTransferEncoding, sChunked),
   HostLine \o HeaderLine(sTransferEncoding, sChunkedCapital),
   HostLine \o HeaderLine(sTransferEncoding, sGzip \o <<",", SP>> \o sChunked),
   HostLine \o HeaderLine(sTransferEncoding, sGzip),
   HeaderLine(sTransferEncoding, sChunked),
   HostLine \o HeaderLine(sTransferEncoding, sChunked)
     \o HeaderLine(sContentLength, <<"2">>),
   HostLine \o sConnection \o CRLF}

\* what follows the header block: nothing, plain bytes, chunked bodies that
\* end as they should and chunked bodies that do not
MessageBodies ==
  {<<>>, <<"a">>, <<"a","b">>, <<"a","b","c">>,
   ChunkedBody(<<>>),
   ChunkedBody(<<<<"a","b">>, <<"c">>>>),
   ChunkedBody(<<<<"a",CR,LF,"b">>>>),
   ChunkedBody(<<<<"a","b">>>>) \o sX,
   <<"2">> \o CRLF \o <<"a","b">> \o CRLF \o <<"0">> \o CRLF
     \o HeaderLine(sX, sX) \o CRLF,
   <<"3">> \o CRLF \o <<"a","b">> \o CRLF \o <<"0">> \o CRLF \o CRLF,
   <<"2",";","x">> \o CRLF \o <<"a","b">> \o CRLF \o <<"0">> \o CRLF \o CRLF,
   <<"g">> \o CRLF \o <<"a","b">> \o CRLF \o <<"0">> \o CRLF \o CRLF}

TestMessages ==
  {line \o HostLine \o CRLF : line \in MessageLines}
  \cup {RequestLine(sPOST, <<"/">>, sHTTP11) \o headers \o CRLF \o body :
          headers \in MessageHeaders, body \in MessageBodies}

InitMessage ==
  /\ ResponseIdle /\ ServerIdle /\ UnitIdle
  /\ p_msg \in TestMessages
  /\ p_pieces \in Cuts(p_msg)
  /\ p_req = HttpRequest
  /\ p_status = "NONE"

NextMessage == ParserFeed

SpecMessage == InitMessage /\ [][NextMessage]_vars

\* ------------------------------------------------------------------------
\* Properties of the body states
\* ------------------------------------------------------------------------
RECURSIVE Flat(_)
Flat(pieces) ==
  IF pieces = <<>> THEN <<>> ELSE Head(pieces) \o Flat(Tail(pieces))

\* the bytes of the message handed to the parser once pieces are left
Fed(pieces) == SubSeq(p_msg, 1, Len(p_msg) - Len(Flat(pieces)))

\* what follows the first empty line
AfterHeaders(bytes) == SubstrFrom(bytes, Find(bytes, CRLF \o CRLF, 0) + 4)

\* a chunked body read by its size lines: each size line, that many bytes
\* of data, CRLF; after a size of zero, CRLF and nothing else
RECURSIVE Dechunk(_)
Dechunk(bytes) ==
  LET e == Find(bytes, CRLF, 0)
      size == stoull(Substr(bytes, 0, e), 16)
      n == size.value
  IN IF e = NPOS \/ ~size.ok THEN [ok |-> FALSE, body |-> <<>>]
     ELSE IF n = 0
       THEN [ok |-> SubstrFrom(bytes, e + 2) = CRLF, body |-> <<>>]
     ELSE IF Len(bytes) < e + 2 + n + 2 \/ Substr(bytes, e + 2 + n, 2) # CRLF
       THEN [ok |-> FALSE, body |-> <<>>]
     ELSE LET rest == Dechunk(SubstrFrom(bytes, e + 2 + n + 2))
          IN [ok |-> rest.ok, body |-> Substr(bytes, e + 2, n) \o rest.body]

\* C32: when a call completes a chunked request with DONE, the bytes fed
\* after the headers are a well-formed chunked body ending with a zero-size
\* chunk and exactly CRLF, the body of the Request is the concatenation, in
\* order, of the data of its non-zero chunks, getBodyLength() is the length
\* of that body, and the buffer is empty.
C32_ChunkedBody ==
  [][(p_req.state # "COMPLETE" /\ p_status' = "DONE" /\ p_req'.is_chanked) =>
       /\ Dechunk(AfterHeaders(Fed(p_pieces'))).ok
       /\ p_req'.body = Dechunk(AfterHeaders(Fed(p_pieces'))).body
       /\ p_req'.body_length = Len(p_req'.body)
       /\ p_req'.buffer = <<>>]_vars

\* every piece of a chunked request of two chunks has been fed and the
\* last call returned DONE
C32_Witness ==
  /\ p_status = "DONE" /\ p_req.is_chanked /\ ~p_req.is_error
  /\ p_req.body = <<"a","b","c">>
  /\ p_pieces = <<>> /\ Len(p_req.buffer) = 0
  /\ p_msg = RequestLine(sPOST, <<"/">>, sHTTP11) \o HostLine
               \o HeaderLine(sTransferEncoding, sChunked) \o CRLF
               \o ChunkedBody(<<<<"a","b">>, <<"c">>>>)

\* the Request as the loop of this call finds it when it first dispatches
\* on the given state, if it does
RECURSIVE UpTo(_, _)
UpTo(r, state) ==
  IF r.state = state THEN [reached |-> TRUE, req |-> r]
  ELSE LET step == ParseStep(r)
       IN IF step.status = "CONTINUE" THEN UpTo(step.req, state)
          ELSE [reached |-> FALSE, req |-> step.req]

Entered(state) ==
  IF p_pieces = <<>> \/ p_req.state = "COMPLETE"
    THEN [reached |-> FALSE, req |-> p_req]
    ELSE UpTo(appendBuffer(p_req, Head(p_pieces)), state)

\* C33: a call that reaches state BODY returns WAIT_FOR_DATA while the
\* unparsed bytes are fewer than the expected body length, ERROR 400 when
\* they are more, and on equality completes with exactly those bytes as the
\* body; without Content-Length the expected length is zero, so the request
\* completes with an empty body; and bytes behind the end of a request in
\* the same buffer give ERROR 400, behind a chunked one too.
C33_BodyByLength ==
  [][/\ Entered("BODY").reached =>
          LET r == Entered("BODY").req
              view == getUnparsedBuffer(r)
          IN /\ ~hasHeader(r, sContentLength) => r.body_length = 0
             /\ Len(view) < r.body_length =>
                  /\ p_status' = "WAIT_FOR_DATA"
                  /\ ~p_req'.is_error /\ p_req'.state = "BODY"
             /\ Len(view) > r.body_length =>
                  /\ p_status' = "ERROR"
                  /\ p_req'.is_error /\ p_req'.status_code = BAD_REQUEST
             /\ Len(view) = r.body_length =>
                  /\ p_status' = "DONE"
                  /\ ~p_req'.is_error /\ p_req'.state = "COMPLETE"
                  /\ p_req'.body = view
     /\ Entered("CHUNKED_BODY_TRAILER").reached =>
          LET view == getUnparsedBuffer(Entered("CHUNKED_BODY_TRAILER").req)
          IN (Len(view) > 2 /\ Substr(view, 0, 2) = CRLF) =>
               /\ p_status' = "ERROR"
               /\ p_req'.is_error /\ p_req'.status_code = BAD_REQUEST]_vars

\* a body one byte longer than its Content-Length has been refused
C33_Witness ==
  /\ p_msg = RequestLine(sPOST, <<"/">>, sHTTP11) \o HostLine
               \o HeaderLine(sContentLength, <<"2">>) \o CRLF
               \o <<"a","b","c">>
  /\ p_pieces = <<>>
  /\ p_status = "ERROR" /\ p_req.status_code = BAD_REQUEST
  /\ p_req.err_message = "Content-Length mismatch"

\* ------------------------------------------------------------------------
\* Properties of the header setup and of the request line
\* ------------------------------------------------------------------------
\* the Request handed to validateHeadersSetup in this call, if the header
\* block is complete and each of its lines is well formed
SetupEntered ==
  LET at == Entered("HEADERS")
      message == getUnparsedBuffer(at.req)
      headers_end == Find(message, CRLF \o CRLF, 0)
      lines == HeaderLines(Substr(message, 0, headers_end), 0, at.req)
  IN IF at.reached /\ Find(message, CRLF, 0) # 0 /\ headers_end # NPOS
        /\ lines.status # "ERROR"
       THEN [reached |-> TRUE,
             req |-> commitParsedBytes(lines.req, headers_end + 4)]
       ELSE [reached |-> FALSE, req |-> at.req]

\* the decimal number a header value starts with, if it starts with one
LeadingDecimal(value) ==
  LET n == SpanLen(value, DigitChars)
  IN [ok |-> n > 0, value |-> DigitsValue(SubSeq(value, 1, n), 10, 0)]

HostAbsent(r) == ~hasHeader(r, sHost)
BothLengths(r) ==
  hasHeader(r, sTransferEncoding) /\ hasHeader(r, sContentLength)
NamesChunked(r) ==
  Find(toLowerCase(getHeader(r, sTransferEncoding)), sChunked, 0) # NPOS
NotChunked(r) == hasHeader(r, sTransferEncoding) /\ ~NamesChunked(r)

\* what the header setup leaves when it accepts the block
SetupAccepts(r) ==
  LET res == validateHeadersSetup(r)
  IN /\ res.status = "CONTINUE" /\ ~res.req.is_error
     /\ res.req.state = IF hasHeader(r, sTransferEncoding) /\ NamesChunked(r)
                          THEN "CHUNKED_BODY_SIZE" ELSE "BODY"
     /\ res.req.state = "BODY" =>
          res.req.body_length =
            IF hasHeader(r, sContentLength)
              THEN LeadingDecimal(getHeader(r, sContentLength)).value
              ELSE 0

SetupRefuses ==
  /\ p_status' = "ERROR"
  /\ p_req'.is_error /\ p_req'.status_code = BAD_REQUEST

LineStatus(line) ==
  LET first == Find(line, <<SP>>, 0)
      second == Find(line, <<SP>>, first + 1)
      method == Substr(line, 0, first)
      target == Substr(line, first + 1, second - first - 1)
      version == SubstrFrom(line, second + 1)
  IN IF first = NPOS \/ second = NPOS THEN BAD_REQUEST
     ELSE IF MethodCode(method) = "UNKNOWN" THEN NOT_IMPLEMENTED
     ELSE IF validateRequestTarget(target) # "" THEN BAD_REQUEST
     ELSE IF MatchesGeneralVersion(version) /\ version \notin {sHTTP10, sHTTP11}
       THEN HTTP_VERSION_NOT_SUPPORTED
     ELSE IF ~MatchesGeneralVersion(version) THEN BAD_REQUEST
     ELSE 0

\* C35: a call that finds a CRLF-terminated request line checks the method,
\* then the target, then the version, and the first check that fails fixes
\* the status: 501 for an unknown method, 400 for an invalid target, 505 for
\* a well-formed unsupported version, 400 for a malformed version or a
\* missing token; only a line passing every check moves the state to
\* HEADERS, and then exactly the line and its CRLF are consumed.
C35_RequestLine ==
  [][(p_pieces # <<>> /\ p_req.state = "REQUEST_LINE") =>
       LET r == appendBuffer(p_req, Head(p_pieces))
           view == getUnparsedBuffer(r)
           line == Substr(view, 0, Find(view, CRLF, 0))
           res == parseRequestLine(r)
       IN Find(view, CRLF, 0) # NPOS =>
            IF LineStatus(line) # 0
              THEN /\ res.status = "ERROR" /\ res.req.state # "HEADERS"
                   /\ p_status' = "ERROR" /\ p_req'.is_error
                   /\ p_req'.status_code = LineStatus(line)
              ELSE /\ res.status = "CONTINUE" /\ ~res.req.is_error
                   /\ res.req.state = "HEADERS"
                   /\ res.req.parsed_buffer_offset
                        = r.parsed_buffer_offset + Len(line) + 2
                   /\ getUnparsedBuffer(res.req)
                        = SubstrFrom(view, Len(line) + 2)]_vars

\* a line whose method and target both fail has been answered with the
\* status of the method
C35_Witness ==
  /\ p_msg = RequestLine(sPATCH, sX, sHTTP11) \o HostLine \o CRLF
  /\ p_status = "ERROR" /\ p_req.status_code = NOT_IMPLEMENTED

\* ------------------------------------------------------------------------
\* CgiHandler::parseOutput
\* ------------------------------------------------------------------------
sStatus == <<"S","t","a","t","u","s">>

\* std::getline over the header part: the bytes up to the next LF, and what
\* follows it
NextLine(part) ==
  LET e == Find(part, <<LF>>, 0)
  IN IF e = NPOS THEN [line |-> part, rest |-> <<>>]
     ELSE [line |-> Substr(part, 0, e), rest |-> SubstrFrom(part, e + 1)]

\* the body of the while loop for one line: acc holds the response, whether
\* a Status header set its code, and the content type seen so far
parseOutputLine(line_, acc) ==
  LET line == IF line_ # <<>> /\ line_[Len(line_)] = CR
                THEN SubSeq(line_, 1, Len(line_) - 1) ELSE line_
      colon_pos == Find(line, <<":">>, 0)
      name == Substr(line, 0, colon_pos)
      raw == SubstrFrom(line, colon_pos + 1)
      value == SubstrFrom(raw, SpanLen(raw, {SP, HT}))
      lower_name == toLowerCase(name)
      status_code == stoi(Substr(value, 0, 3))
  IN IF line_ = <<>> \/ line_ = <<CR>> THEN acc
     ELSE IF colon_pos = NPOS THEN acc
     ELSE IF lower_name = toLowerCase(sStatus)
       THEN IF status_code.ok
              THEN [acc EXCEPT
                      !.response = setStatusCode(@, status_code.value),
                      !.status_was_set_by_cgi = TRUE]
              ELSE acc
     ELSE IF lower_name = toLowerCase(sContentType)
       THEN [acc EXCEPT !.content_type_value = value]
     ELSE [acc EXCEPT !.response = HttpResponse_insertHeader(@, name, value)]

RECURSIVE parseOutputLines(_, _)
parseOutputLines(part, acc) ==
  IF part = <<>> THEN acc
  ELSE parseOutputLines(NextLine(part).rest,
                        parseOutputLine(NextLine(part).line, acc))

parseOutput(output) ==
  LET crlf_pos == Find(output, CRLF \o CRLF, 0)
      separator_pos == IF crlf_pos = NPOS THEN Find(output, <<LF, LF>>, 0)
                       ELSE crlf_pos
      headers_part == IF separator_pos # NPOS
                        THEN Substr(output, 0, separator_pos) ELSE <<>>
      body_start_pos ==
        separator_pos
          + (IF Substr(output, separator_pos, 4) = CRLF \o CRLF THEN 4 ELSE 2)
      body_part == IF separator_pos # NPOS
                     THEN SubstrFrom(output, body_start_pos) ELSE output
      acc == parseOutputLines(headers_part,
                              [response |-> HttpResponse,
                               status_was_set_by_cgi |-> FALSE,
                               content_type_value |-> sTextPlain])
      response == IF acc.status_was_set_by_cgi THEN acc.response
                  ELSE setStatusCode(acc.response, OK)
  IN HttpResponse_setBody(response, body_part, acc.content_type_value)

\* ------------------------------------------------------------------------
\* CGI output harness: parseOutput on the documents a script may print
\* ------------------------------------------------------------------------
NoField == <<>>

\* the bytes the script prints
Printed(d) ==
  (IF d.status = NoField THEN <<>>
   ELSE sStatus \o <<":", SP>> \o d.status \o d.eol)
  \o (IF d.content_type = NoField THEN <<>>
      ELSE sContentType \o <<":", SP>> \o d.content_type \o d.eol)
  \o (IF d.other = NoField THEN <<>>
      ELSE d.other[1] \o <<":", SP>> \o d.other[2] \o d.eol)
  \o (IF d.separator THEN d.eol ELSE <<>>)
  \o d.body

\* a document: the value of its Status and Content-Type headers and one
\* further header, each possibly absent, its line ending, whether the
\* empty line is there, and its body; a document without separator holds
\* no empty line at all
CgiDocuments ==
  {d \in [status : {NoField,
                    <<"2","0","1",SP,"C","r","e","a","t","e","d">>,
                    <<"4","0","4">>},
          content_type : {NoField, sTextHtml},
          other : {NoField, <<<<"X","-","A">>, <<"v">>>>,
                   <<sLocation, <<"/","x">>>>},
          eol : {CRLF, <<LF>>},
          separator : BOOLEAN,
          body : {<<>>, <<"m","a","d","e">>, <<"a",LF,LF,"b">>,
                  <<"a">> \o CRLF \o CRLF \o <<"b">>}] :
     IF d.separator
       THEN d.status # NoField \/ d.content_type # NoField
            \/ d.other # NoField
       ELSE /\ Find(Printed(d), <<LF, LF>>, 0) = NPOS
            /\ Find(Printed(d), CRLF \o CRLF, 0) = NPOS}

InitCgiOutput == ParserIdle /\ ResponseIdle /\ ServerIdle /\ UnitIdle

CgiParseOutput ==
  /\ \E d \in CgiDocuments :
       /\ m_in' = [op |-> "parseOutput", document |-> d,
                   output |-> Printed(d)]
       /\ m_out' = [op |-> "parseOutput",
                    response |-> parseOutput(Printed(d))]
  /\ UNCHANGED <<parserVars, responseVars, serverVars, cgiVars>>

NextCgiOutput == CgiParseOutput

SpecCgiOutput == InitCgiOutput /\ [][NextCgiOutput]_vars

\* ------------------------------------------------------------------------
\* Properties of the CGI document mapping
\* ------------------------------------------------------------------------
\* status, content type and body as the document states them
DocumentMapped(d, response) ==
  IF d.separator
    THEN /\ response.status_code =
              IF d.status = NoField THEN OK
              ELSE DigitsValue(SubSeq(d.status, 1, 3), 10, 0)
         /\ response.content_type =
              IF d.content_type = NoField THEN sTextPlain
              ELSE d.content_type
         /\ response.body = d.body
    ELSE /\ response.status_code = OK
         /\ response.content_type = sTextPlain
         /\ response.body = Printed(d)

\* the further header of the document is a header of the response
PassedThrough(d, response) ==
  (d.separator /\ d.other # NoField) =>
    /\ toLowerCase(d.other[1]) \in DOMAIN response.headers
    /\ response.headers[toLowerCase(d.other[1])] = d.other[2]

\* C36: with a header/body separator the response takes its status from the
\* first three digits of the Status header (200 without one), its content
\* type from Content-Type (text/plain without one), every other header as it
\* is, and as body exactly the bytes after the separator; without a separator
\* the whole output is the body, with status 200 and text/plain.
C36_DocumentMapping ==
  m_in.op = "parseOutput" =>
    /\ DocumentMapped(m_in.document, m_out.response)
    /\ PassedThrough(m_in.document, m_out.response)

\* the part that holds: status, content type and body, unless the headers
\* end in LF and the body holds CRLF CRLF
C36_StatusTypeBody ==
  (/\ m_in.op = "parseOutput"
   /\ ~(/\ m_in.document.separator /\ m_in.document.eol = <<LF>>
        /\ Find(m_in.document.body, CRLF \o CRLF, 0) # NPOS)) =>
    DocumentMapped(m_in.document, m_out.response)

\* ------------------------------------------------------------------------
\* HttpMethodHandler::handleMultipartFileUpload
\* ------------------------------------------------------------------------
CREATED == 201
FORBIDDEN == 403

sBoundaryParam == <<"b","o","u","n","d","a","r","y","=">>
sContentDisposition == <<"C","o","n","t","e","n","t","-","D","i","s","p","o","s","i","t","i","o","n",":">>
sFilenameParam == <<"f","i","l","e","n","a","m","e","=","DQUOTE">>
sDashes == <<"-","-">>

getMultipartBoundary(content_type) ==
  LET boundary_pos == Find(content_type, sBoundaryParam, 0)
      val_start_pos == boundary_pos + 9
      quoted == /\ val_start_pos < Len(content_type)
                /\ content_type[val_start_pos + 1] = "DQUOTE"
      quote_end == Find(content_type, <<"DQUOTE">>, val_start_pos + 1)
      ends == {i \in val_start_pos..(Len(content_type) - 1) :
                 content_type[i + 1] \in {SP, HT, ";"}}
      val_end_pos == IF ends = {} THEN Len(content_type) ELSE MinOf(ends)
  IN IF boundary_pos = NPOS THEN <<>>
     ELSE IF quoted
       THEN IF quote_end = NPOS THEN <<>>
            ELSE Substr(content_type, val_start_pos + 1,
                        quote_end - (val_start_pos + 1))
     ELSE Substr(content_type, val_start_pos, val_end_pos - val_start_pos)

getMultipartFileName(body, start, end) ==
  LET headers == Substr(body, start, end - start)
      content_disp_pos == Find(headers, sContentDisposition, 0)
      file_name_pos == Find(headers, sFilenameParam, content_disp_pos)
      file_name_end == Find(headers, <<"DQUOTE">>, file_name_pos + 10)
  IN IF content_disp_pos # NPOS /\ file_name_pos # NPOS
        /\ file_name_end # NPOS
       THEN Substr(headers, file_name_pos + 10,
                   file_name_end - (file_name_pos + 10))
       ELSE <<>>

\* std::filesystem::path(filename).extension(): from the last dot of the
\* last component, empty for ".", ".." and a name whose only dot leads it
path_extension(filename) ==
  LET slashes == {i \in 1..Len(filename) : filename[i] = "/"}
      name == IF slashes = {} THEN filename
              ELSE SubSeq(filename, 1 + (CHOOSE i \in slashes :
                                           \A j \in slashes : j <= i),
                          Len(filename))
      dots == {i \in 1..Len(name) : name[i] = "."}
      last == CHOOSE i \in dots : \A j \in dots : j <= i
  IN IF dots = {} \/ name \in {<<".">>, <<".", ".">>} THEN <<>>
     ELSE IF last = 1 THEN <<>>
     ELSE SubSeq(name, last, Len(name))

isAllowedFileType(extension) ==
  extension \in
    {<<"t","x","t">>,
     <<"p","d","f">>,
     <<"d","o","c">>,
     <<"d","o","c","x">>,
     <<"j","p","g">>,
     <<"j","p","e","g">>,
     <<"p","n","g">>,
     <<"g","i","f">>,
     <<"z","i","p">>,
     <<"t","a","r">>,
     <<"h","t","m","l">>,
     <<"c","s","s">>,
     <<"j","s">>,
     <<"j","s","o","n">>}

\* saveUploadedFile: fails when the file exists or cannot be opened;
\* files are the names present in the upload directory
saveUploadedFile(files, file_name, open_ok) ==
  IF file_name \in files THEN [ok |-> FALSE, files |-> files]
  ELSE IF ~open_ok THEN [ok |-> FALSE, files |-> files]
  ELSE [ok |-> TRUE, files |-> files \cup {file_name}]

\* the return after the loop
uploadReturn(st) ==
  [status |-> IF st.file_count = 0 THEN NOT_FOUND ELSE CREATED,
   saved_files |-> st.saved_files, files |-> st.files]

\* the while loop over the boundaries of the body, from body_part_start
RECURSIVE uploadParts(_, _, _, _, _)
uploadParts(body, boundary, body_part_start, st, open_ok) ==
  LET found == Find(body, boundary, body_part_start)
      after == found + Len(boundary)
      start == IF Substr(body, after, 2) = CRLF THEN after + 2 ELSE after
      header_end == Find(body, CRLF \o CRLF, start)
      filename == getMultipartFileName(body, start, header_end)
      dotted == path_extension(filename)
      extension == IF Find(dotted, <<".">>, 0) # NPOS
                     THEN Substr(dotted, 1, Len(dotted) - 1) ELSE dotted
      file_name == [i \in 1..Len(filename) |->
                      IF filename[i] = SP THEN "-" ELSE filename[i]]
      content_start == header_end + 4
      next_boundary == Find(body, boundary, content_start)
      content_end ==
        IF next_boundary >= 2 /\ Substr(body, next_boundary - 2, 2) = CRLF
          THEN next_boundary - 2
        ELSE IF next_boundary >= 1 /\ body[next_boundary + 1] = LF
          THEN next_boundary - 1
        ELSE next_boundary
      saved == saveUploadedFile(st.files, file_name, open_ok)
  IN IF found = NPOS THEN uploadReturn(st)
     ELSE IF Substr(body, after, 2) = sDashes THEN uploadReturn(st)
     ELSE IF header_end = NPOS THEN uploadReturn(st)
     ELSE IF ~isAllowedFileType(extension)
       THEN [status |-> FORBIDDEN, saved_files |-> st.saved_files,
             files |-> st.files]
     ELSE IF filename = <<>>
       THEN uploadParts(body, boundary, header_end + 4, st, open_ok)
     ELSE IF next_boundary = NPOS THEN uploadReturn(st)
     ELSE IF ~saved.ok
       THEN [status |-> INTERNAL_SERVER_ERROR,
             saved_files |-> st.saved_files, files |-> st.files]
     ELSE uploadParts(body, boundary, next_boundary,
                      [file_count |-> st.file_count + 1,
                       saved_files |-> Append(st.saved_files, file_name),
                       files |-> saved.files],
                      open_ok)

\* the status of the response, the names pushed to saved_files and the
\* upload directory afterwards
handleMultipartFileUpload(body, files, content_type, open_ok) ==
  LET boundary == getMultipartBoundary(content_type)
  IN IF boundary = <<>>
       THEN [status |-> BAD_REQUEST, saved_files |-> <<>>, files |-> files]
       ELSE uploadParts(body, sDashes \o boundary, 0,
                        [file_count |-> 0, saved_files |-> <<>>,
                         files |-> files],
                        open_ok)

\* ------------------------------------------------------------------------
\* Upload harness: multipart bodies of up to MaxParts parts
\* ------------------------------------------------------------------------
MaxParts == 2

sMultipartZZ == <<"m","u","l","t","i","p","a","r","t","/","f","o","r","m","-","d","a","t","a",";",SP,"b","o","u","n","d","a","r","y","=","Z","Z">>
sFormData == <<SP,"f","o","r","m","-","d","a","t","a",";",SP,"n","a","m","e","=","DQUOTE","f","DQUOTE">>
sATxt == <<"a",".","t","x","t">>
sBTxt == <<"b",".","t","x","t">>
sCExe == <<"c",".","e","x","e">>

\* a part: whether its Content-Disposition has a filename parameter, the
\* file name, and the content; a form field, an empty file name, two files
\* of an allowed type and one of a type that is not allowed
UploadParts ==
  {[named |-> FALSE, filename |-> <<>>, content |-> <<"v">>],
   [named |-> TRUE, filename |-> <<>>, content |-> <<>>],
   [named |-> TRUE, filename |-> sATxt, content |-> <<"h","e","l","l","o">>],
   [named |-> TRUE, filename |-> sBTxt, content |-> <<"x">>],
   [named |-> TRUE, filename |-> sCExe, content |-> <<"x">>]}

UploadBodies ==
  UNION {[1..n -> UploadParts] : n \in 0..MaxParts}

PartBytes(part) ==
  <<"-","-","Z","Z">> \o CRLF \o sContentDisposition \o sFormData
  \o (IF part.named
        THEN <<";", SP>> \o sFilenameParam \o part.filename \o <<"DQUOTE">>
        ELSE <<>>)
  \o CRLF \o CRLF \o part.content \o CRLF

RECURSIVE PartsBytes(_)
PartsBytes(parts) ==
  IF parts = <<>> THEN <<"-","-","Z","Z","-","-">> \o CRLF
  ELSE PartBytes(Head(parts)) \o PartsBytes(Tail(parts))

InitUpload == ParserIdle /\ ResponseIdle /\ ServerIdle /\ UnitIdle

UploadHandleMultipart ==
  /\ \E parts \in UploadBodies, files \in {{}, {sATxt}}, open_ok \in BOOLEAN :
       /\ m_in' = [op |-> "handleMultipartFileUpload", parts |-> parts,
                   files |-> files, open_ok |-> open_ok]
       /\ m_out' = handleMultipartFileUpload(PartsBytes(parts), files,
                                             sMultipartZZ, open_ok)
  /\ UNCHANGED <<parserVars, responseVars, serverVars, cgiVars>>

NextUpload == UploadHandleMultipart

SpecUpload == InitUpload /\ [][NextUpload]_vars

\* ------------------------------------------------------------------------
\* Properties of the multipart upload
\* ------------------------------------------------------------------------
Nameless(part) == part.filename = <<>>

RECURSIVE FileNames(_)
FileNames(parts) ==
  IF parts = <<>> THEN <<>>
  ELSE IF Nameless(Head(parts)) THEN FileNames(Tail(parts))
  ELSE <<Head(parts).filename>> \o FileNames(Tail(parts))

\* every file of the upload can be saved: its type is allowed, no file of
\* its name is there, no name comes twice, and the files can be opened
Savable(parts) ==
  /\ m_in.open_ok
  /\ \A i \in 1..Len(FileNames(parts)) :
       /\ FileNames(parts)[i] \in {sATxt, sBTxt} \ m_in.files
       /\ \A j \in 1..Len(FileNames(parts)) :
            i # j => FileNames(parts)[i] # FileNames(parts)[j]

Uploaded(parts) ==
  /\ m_out.saved_files = FileNames(parts)
  /\ m_out.status = IF FileNames(parts) = <<>> THEN NOT_FOUND ELSE CREATED

\* C37: a part without filename, or with an empty one, is skipped and does
\* not fail the upload: the remaining parts are processed, and the response
\* is 201 when at least one file was saved and 404 when none was.
C37_NamelessPartSkipped ==
  (/\ m_in.op = "handleMultipartFileUpload"
   /\ \E i \in 1..Len(m_in.parts) : Nameless(m_in.parts[i])
   /\ Savable(m_in.parts)) =>
    Uploaded(m_in.parts)

\* the part that holds: uploads in which every part names its file
C37_EveryPartNamed ==
  (/\ m_in.op = "handleMultipartFileUpload"
   /\ \A i \in 1..Len(m_in.parts) : ~Nameless(m_in.parts[i])
   /\ Savable(m_in.parts)) =>
    Uploaded(m_in.parts)

\* ------------------------------------------------------------------------
\* Webserv::handleConnection and the scratch buffer
\* ------------------------------------------------------------------------
WEBSERV_BUFFER_SIZE == 16384

\* sizeof(_buffer) for char _buffer[WEBSERV_BUFFER_SIZE]
sizeof_buffer == WEBSERV_BUFFER_SIZE

\* the indices of _buffer written by one handleConnection call in which
\* recv returned bytes_read, as the interval first..last: recv stores
\* bytes_read bytes from index 0, and the else branch stores the terminator
\* at index bytes_read; nothing is written when recv returns 0 or -1
bufferWrites(bytes_read) ==
  IF bytes_read <= 0 THEN [first |-> 0, last |-> -1]
  ELSE [first |-> 0, last |-> bytes_read]

\* what a store at the given index of _buffer hits: the array, or the
\* member of Webserv laid out behind it or the padding between them
StoreTargets(index) ==
  IF index < WEBSERV_BUFFER_SIZE THEN {"_buffer"}
  ELSE {"_method_handler", "padding"}

InitScratch == ParserIdle /\ ResponseIdle /\ ServerIdle /\ UnitIdle

\* one handleConnection call, for each value that
\* recv(fd, _buffer, sizeof(_buffer), 0) may return: -1, 0, or the number
\* of bytes received
ScratchHandleConnection ==
  /\ m_in.op = "none"
  /\ \E bytes_read \in (-1)..sizeof_buffer :
       /\ m_in' = [op |-> "handleConnection", bytes_read |-> bytes_read]
       /\ \E hit \in StoreTargets(bufferWrites(bytes_read).last) :
            m_out' = [op |-> "handleConnection",
                      writes |-> bufferWrites(bytes_read),
                      terminator |-> hit]
  /\ UNCHANGED <<parserVars, responseVars, serverVars, cgiVars>>

NextScratch == ScratchHandleConnection

SpecScratch == InitScratch /\ [][NextScratch]_vars

\* C38: every index of the scratch buffer written by the read-dispatch step
\* is inside the buffer, for every number of bytes recv may return, the
\* index of the terminator behind the received data included.
C38_WritesInsideBuffer ==
  m_in.op = "handleConnection" =>
    /\ m_out.writes.first >= 0
    /\ m_out.writes.last < WEBSERV_BUFFER_SIZE
    /\ m_out.terminator = "_buffer"

\* the part that holds: recv returning fewer bytes than the buffer holds
C38_ExceptFullBuffer ==
  (m_in.op = "handleConnection" /\ m_in.bytes_read < WEBSERV_BUFFER_SIZE) =>
    /\ m_out.writes.first >= 0
    /\ m_out.writes.last < WEBSERV_BUFFER_SIZE
    /\ m_out.terminator = "_buffer"

\* ------------------------------------------------------------------------
\* Properties of the dispatch loop
\* ------------------------------------------------------------------------
\* the order of the parsing states on the way to COMPLETE
Rank(state) ==
  CASE state = "REQUEST_LINE" -> 0
    [] state = "HEADERS" -> 1
    [] state = "BODY" -> 2
    [] state = "CHUNKED_BODY_SIZE" -> 2
    [] state = "CHUNKED_BODY_DATA" -> 3
    [] state = "CHUNKED_BODY_TRAILER" -> 4
    [] state = "COMPLETE" -> 5

\* a pass of the loop took bytes from the unparsed view or moved the state
\* forward
Advances(r, next) ==
  \/ Len(getUnparsedBuffer(next)) < Len(getUnparsedBuffer(r))
  \/ Rank(next.state) > Rank(r.state)

\* the passes of the loop that return CONTINUE, from r on: how many there
\* are up to the first that does not advance, and whether all advance
RECURSIVE LoopTrace(_)
LoopTrace(r) ==
  LET step == ParseStep(r)
  IN IF step.status # "CONTINUE" THEN [ok |-> TRUE, steps |-> 0]
     ELSE IF ~Advances(r, step.req) THEN [ok |-> FALSE, steps |-> 1]
     ELSE [ok |-> LoopTrace(step.req).ok,
           steps |-> 1 + LoopTrace(step.req).steps]

\* C39: in every parseRequest call each pass of the loop that returns
\* CONTINUE takes at least one byte from the unparsed buffer or moves the
\* state forward, the CHUNKED_BODY_SIZE / CHUNKED_BODY_DATA cycle included,
\* so the passes of one call are at most as many as the unparsed bytes and
\* the call returns.
C39_LoopAdvances ==
  p_pieces # <<>> =>
    LET r == appendBuffer(p_req, Head(p_pieces))
    IN /\ LoopTrace(r).ok
       /\ LoopTrace(r).steps <= Len(getUnparsedBuffer(r))
       /\ parseRequest(Head(p_pieces), p_req).status
            \in {"WAIT_FOR_DATA", "DONE", "ERROR"}

\* the request line has been fed, and the call to come goes through the
\* headers and twice through the chunk cycle
C39_Witness ==
  /\ p_status = "WAIT_FOR_DATA" /\ p_req.state = "HEADERS"
  /\ Len(p_pieces) = 1
  /\ LoopTrace(appendBuffer(p_req, Head(p_pieces))).steps >= 7
  /\ parseRequest(Head(p_pieces), p_req).status = "DONE"

\* ------------------------------------------------------------------------
\* Properties of the descriptors registered with the demultiplexer
\* ------------------------------------------------------------------------
\* C40: between two passes of the loop the registered fds are exactly the
\* listening sockets and the keys of the connection table; every key is the
\* client fd of its Connection; no listening fd is a key; and a ready fd
\* that is not a key, for which the loop calls addConnection and so accept,
\* is a listening socket.
C40_RegisteredFds ==
  /\ pc = "wait" => epoll = ListenFds \cup DOMAIN connections
  /\ \A fd \in DOMAIN connections : connections[fd].client_fd = fd
  /\ ListenFds \cap DOMAIN connections = {}
  /\ pc = "dispatch" => (events \ DOMAIN connections) \subseteq ListenFds

\* a pass of the loop has ended with every client slot taken and the
\* listening socket and the clients registered
C40_Witness ==
  /\ pc = "wait" /\ last_call.kind = "sweep"
  /\ Cardinality(DOMAIN connections) = MaxClients
  /\ epoll = ListenFds \cup DOMAIN connections

====
